---- MODULE Spec2Model ----
(***************************************************************************)
(* The trade ledger of scripts/tracking_manager.py (trades.csv and the     *)
(* operations that rewrite it), the monthly report on it of                *)
(* scripts/report_generator.py, the staleness validator of                 *)
(* enhanced_report.py, the top historical picks of                         *)
(* scripts/historical_analyzer.py and the ranking of the signals of a      *)
(* scan, as a state machine.                                               *)
(*                                                                         *)
(* A cell of the ledger, of a report or of a signal is a record            *)
(* [k, n, d, s]: k is the kind of value, n/d the number it holds (a float  *)
(* is kept as an exact fraction in lowest terms), s the text it holds.     *)
(*                                                                         *)
(* Every operation of the ledger reads the whole file, changes the table   *)
(* in memory and writes the whole file back; one action is one call.  The  *)
(* specifications run the same operations over different inputs: Spec      *)
(* follows a trade from its opening to its close, SpecOpen opens trades    *)
(* from every input, SpecPick opens manual picks with three prices,        *)
(* SpecMark marks several Active trades to market in one batch, SpecEntry  *)
(* does so over trades with any entry price, SpecFrame over ledgers that   *)
(* hold Closed trades next to Active ones.  SpecLoad runs the operations   *)
(* on whatever can be found at the path of the ledger, SpecRace runs two   *)
(* of them side by side, the read and the write of each a step of its own. *)
(* SpecReport makes monthly reports from what can be found at the path of  *)
(* the ledger, SpecStale makes the daily report from a record of signals,  *)
(* SpecPicks takes the top picks from a historical performance table and   *)
(* SpecRank ranks the signals of one scan of the market.                   *)
(*                                                                         *)
(* close_trade is imported by the tests and called by the demonstration at *)
(* the end of tracking_manager.py, but the file does not define it: it is  *)
(* modelled from section 4.7 of the specification and from its tests.      *)
(* scripts/high_current.py, the ranking of signals, is imported by its     *)
(* tests only: it is modelled from section 4.5 of the specification and    *)
(* from the scenarios of those tests.                                      *)
(***************************************************************************)
EXTENDS Integers, Sequences, FiniteSets, TLC

\* ---------------------------------------------------------------- bounds
\* Rows the ledger holds at most: under Spec and SpecLoad (the whole life of
\* a trade), under SpecOpen, SpecPick and SpecRace (the opening of trades) and
\* under SpecMark and SpecEntry (marking to market).
MaxTrades == 1
MaxOpens == 2
MaxMarked == 2
\* The clock runs from 0 to MaxClock ticks.
MaxClock == 1
\* Ticks of the clock in one calendar day.
TicksPerDay == 1
\* The rows of the ledgers a monthly report is made from, at most.
MaxReportRows == 3
\* The calendar of the reports: years 0 to MaxYear, of MonthsPerYear months,
\* of DaysPerMonth days.
MaxYear == 1
MonthsPerYear == 2
DaysPerMonth == 2
\* The rows of the historical performance tables the top picks are taken
\* from, at most, and the picks asked for, at most.
MaxHistRows == 3
MaxTop == 2

VARIABLES
    clock,      \* what datetime.now() returns, in ticks of its resolution
    ledger,     \* the rows of tracking/trades.csv, as written by to_csv
    last,       \* the most recent call: [op, arg, ret]
    trades_file,  \* what is found at the path of trades.csv
    signals_file, \* the record of signals of the daily JSON file (None: no file)
    hist_perf,  \* what is found at the path of the historical performance CSV
    market,     \* what a scan of the market sees: the symbols and their setups
    writers     \* the ledger operations under way: where each is, and its table

vars == <<clock, ledger, last, trades_file, signals_file, hist_perf, market, writers>>

\* ----------------------------------------------------------------- values
Cell(k, n, d, s) == [k |-> k, n |-> n, d |-> d, s |-> s]

RECURSIVE GCD(_, _)
GCD(a, b) == IF b = 0 THEN a ELSE GCD(b, a % b)

Abs(x) == IF x < 0 THEN -x ELSE x

\* The float n/d (d > 0), in lowest terms.
Rat(n, d) ==
    LET g == GCD(Abs(n), d)
    IN  Cell("num", n \div g, d \div g, "")

Num(n) == Rat(n, 1)
Str(s) == Cell("str", 0, 1, s)
\* np.nan
NaN == Cell("nan", 0, 1, "")
\* Python's None
None == Cell("none", 0, 1, "")
\* a key that the dictionary does not hold
Missing == Cell("missing", 0, 1, "")
\* an empty field of the CSV file
Empty == Cell("empty", 0, 1, "")
PyTrue == Cell("bool", 1, 1, "")
PyFalse == Cell("bool", 0, 1, "")
\* a date, as the day number n; isoformat() and strptime('%Y-%m-%d') are
\* inverse on dates
IsoDate(day) == Cell("date", day, 1, "")

IsNum(c) == c.k = "num"

\* pd.notna
notna(c) == c.k \notin {"nan", "none", "empty"}

\* pd.to_numeric(x, errors='coerce')
to_numeric(c) == IF IsNum(c) THEN c ELSE NaN

\* dict.get(key): None for a key the dictionary does not hold
Get(d, key) == IF d[key] = Missing THEN None ELSE d[key]

\* dict.get(key, default)
GetDefault(d, key, default) == IF d[key] = Missing THEN default ELSE d[key]

\* a + b, a - b, a / b (b # 0) and |a| on the numbers n/d
RatAdd(a, b) == Rat(a.n * b.d + b.n * a.d, a.d * b.d)
RatDiv(a, b) ==
    IF b.n > 0 THEN Rat(a.n * b.d, a.d * b.n) ELSE Rat(-(a.n * b.d), -(a.d * b.n))
RatAbs(a) == Rat(Abs(a.n), a.d)

\* ------------------------------------------------------------------ clock
\* datetime.now().date()
Today(t) == t \div TicksPerDay

\* The text strftime('%Y%m%d%H%M%S%f') makes of the time t: the digits of the
\* date followed by the digits of the time of day.
strftime(t) == Cell("id", (t \div TicksPerDay) * TicksPerDay + (t % TicksPerDay), 1, "")

generate_trade_id(t) == strftime(t)

\* ------------------------------------------------------------- the ledger
CSV_HEADER ==
    {"trade_id", "symbol", "entry_date", "entry_price", "stop_loss_price",
     "target_price", "risk_reward_ratio", "atr_at_entry", "trade_type",
     "source_signal_date", "status", "current_price", "unrealized_pnl",
     "exit_date", "exit_price", "realized_pnl", "exit_reason",
     "holding_period", "notes"}

\* DataFrame.to_csv: NaN, None and the empty string are all written as an
\* empty field.
ToCsvCell(c) == IF c.k \in {"nan", "none"} \/ c = Str("") THEN Empty ELSE c

\* pd.read_csv: an empty field is read as NaN.
FromCsvCell(c) == IF c = Empty THEN NaN ELSE c

ToCsvRow(row) ==
    [trade_id |-> ToCsvCell(row.trade_id),
     symbol |-> ToCsvCell(row.symbol),
     entry_date |-> ToCsvCell(row.entry_date),
     entry_price |-> ToCsvCell(row.entry_price),
     stop_loss_price |-> ToCsvCell(row.stop_loss_price),
     target_price |-> ToCsvCell(row.target_price),
     risk_reward_ratio |-> ToCsvCell(row.risk_reward_ratio),
     atr_at_entry |-> ToCsvCell(row.atr_at_entry),
     trade_type |-> ToCsvCell(row.trade_type),
     source_signal_date |-> ToCsvCell(row.source_signal_date),
     status |-> ToCsvCell(row.status),
     current_price |-> ToCsvCell(row.current_price),
     unrealized_pnl |-> ToCsvCell(row.unrealized_pnl),
     exit_date |-> ToCsvCell(row.exit_date),
     exit_price |-> ToCsvCell(row.exit_price),
     realized_pnl |-> ToCsvCell(row.realized_pnl),
     exit_reason |-> ToCsvCell(row.exit_reason),
     holding_period |-> ToCsvCell(row.holding_period),
     notes |-> ToCsvCell(row.notes)]

to_csv(df) == [i \in 1..Len(df) |-> ToCsvRow(df[i])]

FromCsvRow(row) ==
    [trade_id |-> FromCsvCell(row.trade_id),
     symbol |-> FromCsvCell(row.symbol),
     entry_date |-> FromCsvCell(row.entry_date),
     entry_price |-> FromCsvCell(row.entry_price),
     stop_loss_price |-> FromCsvCell(row.stop_loss_price),
     target_price |-> FromCsvCell(row.target_price),
     risk_reward_ratio |-> FromCsvCell(row.risk_reward_ratio),
     atr_at_entry |-> FromCsvCell(row.atr_at_entry),
     trade_type |-> FromCsvCell(row.trade_type),
     source_signal_date |-> FromCsvCell(row.source_signal_date),
     status |-> FromCsvCell(row.status),
     current_price |-> FromCsvCell(row.current_price),
     unrealized_pnl |-> FromCsvCell(row.unrealized_pnl),
     exit_date |-> FromCsvCell(row.exit_date),
     exit_price |-> FromCsvCell(row.exit_price),
     realized_pnl |-> FromCsvCell(row.realized_pnl),
     exit_reason |-> FromCsvCell(row.exit_reason),
     holding_period |-> FromCsvCell(row.holding_period),
     notes |-> FromCsvCell(row.notes)]

read_csv(file) == [i \in 1..Len(file) |-> FromCsvRow(file[i])]

\* The file exists with its full header, so the table read is the file's rows.
GetTradesDf(file) == read_csv(file)

Rows(df) == 1..Len(df)

\* ------------------------------------------------------------ opening a trade
\* The keys add_tracked_signal reads from signal_data.
SignalKeys ==
    {"symbol", "entry_price", "stop_loss_price", "target_price",
     "risk_reward_ratio", "atr", "date", "notes"}

\* required_keys and the test on them: every key present and not None
required_keys == {"symbol", "entry_price", "stop_loss_price", "target_price", "date"}

\* the test with `key in signal_data` alone
RequiredPresent_KeysOnly(signal_data) ==
    \A key \in required_keys : signal_data[key] # Missing

RequiredPresent(signal_data) ==
    \A key \in required_keys : signal_data[key] \notin {Missing, None}

\* new_row with the status written as 'Open'
NewSignalRow_StatusOpen(signal_data, trade_id, t) ==
    [trade_id           |-> trade_id,
     symbol             |-> Get(signal_data, "symbol"),
     entry_date         |-> IsoDate(Today(t)),
     entry_price        |-> Get(signal_data, "entry_price"),
     stop_loss_price    |-> Get(signal_data, "stop_loss_price"),
     target_price       |-> Get(signal_data, "target_price"),
     risk_reward_ratio  |-> Get(signal_data, "risk_reward_ratio"),
     atr_at_entry       |-> Get(signal_data, "atr"),
     trade_type         |-> Str("Tracked Signal"),
     source_signal_date |-> Get(signal_data, "date"),
     status             |-> Str("Open"),
     current_price      |-> NaN,
     unrealized_pnl     |-> NaN,
     exit_date          |-> NaN,
     exit_price         |-> NaN,
     realized_pnl       |-> NaN,
     exit_reason        |-> Str(""),
     holding_period     |-> NaN,
     notes              |-> GetDefault(signal_data, "notes", Str(""))]

\* new_row with entry_date taken from the signal's own date
NewSignalRow_SignalDate(signal_data, trade_id, t) ==
    [trade_id           |-> trade_id,
     symbol             |-> Get(signal_data, "symbol"),
     entry_date         |-> Get(signal_data, "date"),
     entry_price        |-> Get(signal_data, "entry_price"),
     stop_loss_price    |-> Get(signal_data, "stop_loss_price"),
     target_price       |-> Get(signal_data, "target_price"),
     risk_reward_ratio  |-> Get(signal_data, "risk_reward_ratio"),
     atr_at_entry       |-> Get(signal_data, "atr"),
     trade_type         |-> Str("Tracked Signal"),
     source_signal_date |-> Get(signal_data, "date"),
     status             |-> Str("Active"),
     current_price      |-> NaN,
     unrealized_pnl     |-> NaN,
     exit_date          |-> NaN,
     exit_price         |-> NaN,
     realized_pnl       |-> NaN,
     exit_reason        |-> Str(""),
     holding_period     |-> NaN,
     notes              |-> GetDefault(signal_data, "notes", Str(""))]

\* new_row of add_tracked_signal
NewSignalRow(signal_data, trade_id, t) ==
    [trade_id           |-> trade_id,
     symbol             |-> Get(signal_data, "symbol"),
     entry_date         |-> IsoDate(Today(t)),
     entry_price        |-> Get(signal_data, "entry_price"),
     stop_loss_price    |-> Get(signal_data, "stop_loss_price"),
     target_price       |-> Get(signal_data, "target_price"),
     risk_reward_ratio  |-> Get(signal_data, "risk_reward_ratio"),
     atr_at_entry       |-> Get(signal_data, "atr"),
     trade_type         |-> Str("Tracked Signal"),
     source_signal_date |-> Get(signal_data, "date"),
     status             |-> Str("Active"),
     current_price      |-> NaN,
     unrealized_pnl     |-> NaN,
     exit_date          |-> NaN,
     exit_price         |-> NaN,
     realized_pnl       |-> NaN,
     exit_reason        |-> Str(""),
     holding_period     |-> NaN,
     notes              |-> GetDefault(signal_data, "notes", Str(""))]

\* What add_tracked_signal does to the file and what it returns.
AddTrackedSignalResult(file, signal_data, t) ==
    LET df       == GetTradesDf(file)
        trade_id == generate_trade_id(t)
        new_row  == NewSignalRow(signal_data, trade_id, t)
    IN  IF ~RequiredPresent(signal_data)
        THEN [file |-> file, ret |-> None]
        ELSE [file |-> to_csv(Append(df, new_row)), ret |-> trade_id]

\* Python's truth value of an argument: None and 0 are false.
Truthy(c) == ~(c = None \/ (IsNum(c) /\ c.n = 0))

\* calculated_rr_ratio with the test denominator != 0 in place of
\* denominator > 1e-9
CalculatedRR_NonzeroDenominator(entry_price, stop_loss_price, target_price) ==
    IF Truthy(entry_price) /\ Truthy(target_price) /\ Truthy(stop_loss_price)
    THEN LET den == entry_price.n * stop_loss_price.d - stop_loss_price.n * entry_price.d
             dd  == entry_price.d * stop_loss_price.d
             num == target_price.n * entry_price.d - entry_price.n * target_price.d
             nd  == target_price.d * entry_price.d
         IN  IF den > 0 THEN Rat(num * dd, nd * den)
             ELSE IF den < 0 THEN Rat(-(num * dd), -(nd * den))
             ELSE NaN
    ELSE NaN

\* calculated_rr_ratio of add_manual_historical_pick; the prices are numbers
\* or None.  The prices offered are whole numbers, so the test
\* denominator > 1e-9 is the test denominator > 0.
CalculatedRR(entry_price, stop_loss_price, target_price) ==
    IF Truthy(entry_price) /\ Truthy(target_price) /\ Truthy(stop_loss_price)
    THEN LET den == entry_price.n * stop_loss_price.d - stop_loss_price.n * entry_price.d
             \* denominator = entry_price - stop_loss_price = den / dd
             dd  == entry_price.d * stop_loss_price.d
             num == target_price.n * entry_price.d - entry_price.n * target_price.d
             nd  == target_price.d * entry_price.d
         IN  IF den > 0 THEN Rat(num * dd, nd * den) ELSE NaN
    ELSE NaN

\* new_row of add_manual_historical_pick
NewManualRow(symbol, entry_price, stop_loss_price, target_price, notes, trade_id, t) ==
    [trade_id           |-> trade_id,
     symbol             |-> symbol,
     entry_date         |-> IsoDate(Today(t)),
     entry_price        |-> entry_price,
     stop_loss_price    |-> stop_loss_price,
     target_price       |-> target_price,
     risk_reward_ratio  |-> CalculatedRR(entry_price, stop_loss_price, target_price),
     atr_at_entry       |-> NaN,
     trade_type         |-> Str("Manual Historical Pick"),
     source_signal_date |-> NaN,
     status             |-> Str("Active"),
     current_price      |-> NaN,
     unrealized_pnl     |-> NaN,
     exit_date          |-> NaN,
     exit_price         |-> NaN,
     realized_pnl       |-> NaN,
     exit_reason        |-> Str(""),
     holding_period     |-> NaN,
     notes              |-> notes]

\* What add_manual_historical_pick does to the file and what it returns.  The
\* arguments are not tested: with numbers and None nothing in the body raises.
AddManualPickResult(file, a, t) ==
    LET df       == GetTradesDf(file)
        trade_id == generate_trade_id(t)
        new_row  == NewManualRow(a.symbol, a.entry_price, a.stop_loss_price,
                                 a.target_price, a.notes, trade_id, t)
    IN  [file |-> to_csv(Append(df, new_row)), ret |-> trade_id]

\* ------------------------------------------------------------ mark to market
\* What yf.Ticker(symbol).history(period='2d') does for one trade: it raises,
\* it returns a frame with no rows, or it returns a frame whose last Close is
\* the cell given (a price, or NaN).
Raises == Cell("raises", 0, 1, "")
EmptyHist == Cell("emptyhist", 0, 1, "")

FetchFailed(outcome) == outcome \in {Raises, EmptyHist}

\* a / b rounded to the nearest integer (b # 0); the prices offered give no
\* quotient half way between two integers
RoundDiv(a, b) ==
    IF b > 0 THEN (2 * a + b) \div (2 * b) ELSE (2 * (-a) + (-b)) \div (2 * (-b))

\* the P&L kept as a fraction of the entry price, not multiplied by 100
PnlPct_Fraction(price, entry_price) ==
    Rat(RoundDiv((price.n * entry_price.d - entry_price.n * price.d) * 100,
                 entry_price.n * price.d),
        100)

\* round(((price - entry_price) / entry_price) * 100, 2), for entry_price # 0
PnlPct(price, entry_price) ==
    Rat(RoundDiv((price.n * entry_price.d - entry_price.n * price.d) * 10000,
                 entry_price.n * price.d),
        100)

\* The local current_price of one pass of the loop: NaN unless the fetch
\* returned a row.
LocalCurrentPrice(outcome) == IF FetchFailed(outcome) THEN NaN ELSE outcome

\* (today - entry_date).days, when entry_date is a date the code can parse
HoldingPeriodDays(entry_date, day) == Num(day - entry_date.n)

\* One pass of the loop with the assignments of NaN on a failed fetch that the
\* source keeps commented out.
UpdatedRow_NanOnFailure(row, outcome, t) ==
    LET current_price == LocalCurrentPrice(outcome)
        entry_price   == to_numeric(row.entry_price)
        r1 == [row EXCEPT !.current_price = current_price]
        r2 == IF notna(current_price) /\ notna(entry_price) /\ entry_price.n # 0
              THEN [r1 EXCEPT !.unrealized_pnl = PnlPct(current_price, entry_price)]
              ELSE [r1 EXCEPT !.unrealized_pnl = NaN]
        r3 == IF notna(row.entry_date) /\ row.entry_date.k = "date"
              THEN [r2 EXCEPT !.holding_period = HoldingPeriodDays(row.entry_date, Today(t))]
              ELSE r2
    IN  r3

\* A pass of the loop that also books the price fetched as the exit price of
\* the trade.
UpdatedRow_BooksExit(row, outcome, t) ==
    LET current_price == LocalCurrentPrice(outcome)
        entry_price   == to_numeric(row.entry_price)
        r1 == IF FetchFailed(outcome) THEN row
              ELSE [row EXCEPT !.current_price = current_price,
                               !.exit_price = current_price]
        r2 == IF notna(current_price) /\ notna(entry_price) /\ entry_price.n # 0
              THEN [r1 EXCEPT !.unrealized_pnl = PnlPct(current_price, entry_price)]
              ELSE r1
        r3 == IF notna(row.entry_date) /\ row.entry_date.k = "date"
              THEN [r2 EXCEPT !.holding_period = HoldingPeriodDays(row.entry_date, Today(t))]
              ELSE r2
    IN  r3

\* One pass of the loop of update_active_trades over an Active row.
UpdatedRow(row, outcome, t) ==
    LET current_price == LocalCurrentPrice(outcome)
        entry_price   == to_numeric(row.entry_price)
        r1 == IF FetchFailed(outcome) THEN row
              ELSE [row EXCEPT !.current_price = current_price]
        r2 == IF notna(current_price) /\ notna(entry_price) /\ entry_price.n # 0
              THEN [r1 EXCEPT !.unrealized_pnl = PnlPct(current_price, entry_price)]
              ELSE r1
        r3 == IF notna(row.entry_date) /\ row.entry_date.k = "date"
              THEN [r2 EXCEPT !.holding_period = HoldingPeriodDays(row.entry_date, Today(t))]
              ELSE r2
    IN  r3

IsActive(row) == row.status = Str("Active")

ActiveIndices(df) == {i \in Rows(df) : IsActive(df[i])}

\* update_active_trades with no try/except around the fetch: a fetch that
\* raises ends the call in the outer handler, before the file is written.
UpdateActiveTradesResult_AbortOnRaise(file, fetch, t) ==
    LET df == GetTradesDf(file)
        active_trade_indices == ActiveIndices(df)
        updated == [i \in Rows(df) |->
                       IF i \in active_trade_indices
                       THEN UpdatedRow(df[i], fetch[i], t)
                       ELSE df[i]]
    IN  IF Len(df) = 0 \/ active_trade_indices = {}
        THEN [file |-> file, ret |-> PyTrue]
        ELSE IF \E i \in active_trade_indices : fetch[i] = Raises
             THEN [file |-> file, ret |-> PyFalse]
             ELSE [file |-> to_csv(updated), ret |-> PyTrue]

\* update_active_trades with its loop over every row of the table, not over
\* the Active ones alone: a row that is not Active gets the price of a fetch
\* that succeeds.
UpdateActiveTradesResult_AllRows(file, fetch, t) ==
    LET df == GetTradesDf(file)
        active_trade_indices == ActiveIndices(df)
        updated == [i \in Rows(df) |->
                       IF i \in active_trade_indices
                       THEN UpdatedRow(df[i], fetch[i], t)
                       ELSE UpdatedRow(df[i], Num(108), t)]
    IN  IF Len(df) = 0 \/ active_trade_indices = {}
        THEN [file |-> file, ret |-> PyTrue]
        ELSE [file |-> to_csv(updated), ret |-> PyTrue]

\* What update_active_trades does to the file and what it returns; fetch gives
\* the outcome of the price fetch of each Active row.
UpdateActiveTradesResult(file, fetch, t) ==
    LET df == GetTradesDf(file)
        active_trade_indices == ActiveIndices(df)
        updated == [i \in Rows(df) |->
                       IF i \in active_trade_indices
                       THEN UpdatedRow(df[i], fetch[i], t)
                       ELSE df[i]]
    IN  IF Len(df) = 0 \/ active_trade_indices = {}
        THEN [file |-> file, ret |-> PyTrue]
        ELSE [file |-> to_csv(updated), ret |-> PyTrue]

\* ------------------------------------------------------------ closing a trade
\* A close that leaves the holding period as the last mark to market set it.
ClosedRow_StaleHolding(row, exit_price, exit_reason, t) ==
    LET entry_price == to_numeric(row.entry_price)
        r1 == [row EXCEPT !.status = Str("Closed"),
                          !.exit_date = IsoDate(Today(t)),
                          !.exit_price = exit_price,
                          !.exit_reason = exit_reason]
    IN  IF notna(exit_price) /\ notna(entry_price) /\ entry_price.n # 0
        THEN [r1 EXCEPT !.realized_pnl = PnlPct(exit_price, entry_price)]
        ELSE r1

\* The row of a fresh close: status, exit fields, realized_pnl computed as
\* unrealized_pnl is, holding period from entry_date to exit_date.
ClosedRow(row, exit_price, exit_reason, t) ==
    LET entry_price == to_numeric(row.entry_price)
        r1 == [row EXCEPT !.status = Str("Closed"),
                          !.exit_date = IsoDate(Today(t)),
                          !.exit_price = exit_price,
                          !.exit_reason = exit_reason]
        r2 == IF notna(exit_price) /\ notna(entry_price) /\ entry_price.n # 0
              THEN [r1 EXCEPT !.realized_pnl = PnlPct(exit_price, entry_price)]
              ELSE r1
        r3 == IF notna(row.entry_date) /\ row.entry_date.k = "date"
              THEN [r2 EXCEPT !.holding_period = HoldingPeriodDays(row.entry_date, Today(t))]
              ELSE r2
    IN  r3

Min(S) == CHOOSE x \in S : \A y \in S : x <= y

\* close_trade without the test for a trade that is already Closed
CloseTradeResult_CloseAgain(file, trade_id, exit_price, exit_reason, t) ==
    LET df == GetTradesDf(file)
        matches == {i \in Rows(df) : df[i].trade_id = trade_id}
    IN  IF matches = {}
        THEN [file |-> file, ret |-> PyFalse]
        ELSE [file |-> to_csv([df EXCEPT ![Min(matches)] =
                                  ClosedRow(df[Min(matches)], exit_price, exit_reason, t)]),
              ret |-> PyTrue]

\* close_trade that reports success for a trade_id it does not find
CloseTradeResult_MissingIsSuccess(file, trade_id, exit_price, exit_reason, t) ==
    LET df == GetTradesDf(file)
        matches == {i \in Rows(df) : df[i].trade_id = trade_id}
    IN  IF matches = {}
        THEN [file |-> file, ret |-> PyTrue]
        ELSE IF df[Min(matches)].status = Str("Closed")
             THEN [file |-> file, ret |-> PyTrue]
             ELSE [file |-> to_csv([df EXCEPT ![Min(matches)] =
                                       ClosedRow(df[Min(matches)], exit_price, exit_reason, t)]),
                   ret |-> PyTrue]

\* What close_trade does to the file and what it returns: failure for a
\* trade_id no row carries, success and no write for a trade that is already
\* Closed, and the fresh close of the row otherwise.
CloseTradeResult(file, trade_id, exit_price, exit_reason, t) ==
    LET df == GetTradesDf(file)
        matches == {i \in Rows(df) : df[i].trade_id = trade_id}
    IN  IF matches = {}
        THEN [file |-> file, ret |-> PyFalse]
        ELSE LET index == Min(matches)
             IN  IF df[index].status = Str("Closed")
                 THEN [file |-> file, ret |-> PyTrue]
                 ELSE [file |-> to_csv([df EXCEPT ![index] =
                                           ClosedRow(df[index], exit_price, exit_reason, t)]),
                       ret |-> PyTrue]

\* ------------------------------------------------------- the monthly report
\* The calendar, scaled down: a day number counts the days from the first day
\* of year 0, every month has DaysPerMonth days and every year MonthsPerYear
\* months, numbered from 1.
DayOf(year, month, day) == (year * MonthsPerYear + (month - 1)) * DaysPerMonth + day
dt_year(date) == date.n \div (DaysPerMonth * MonthsPerYear)
dt_month(date) == ((date.n \div DaysPerMonth) % MonthsPerYear) + 1

\* pd.to_datetime(x, errors='coerce'): NaT for what is not a date
to_datetime(c) == IF c.k = "date" THEN c ELSE NaN

\* What get_monthly_performance_report can find at the path of trades.csv: no
\* file, a file of size 0, a file read_csv raises on, a table without its
\* status or its exit_date column, or the table with every column.
TradesFileKinds ==
    {"missing", "zero_size", "unreadable", "no_status", "no_exit_date", "csv"}

\* df.columns
Columns(kind) ==
    CASE kind = "no_status"    -> CSV_HEADER \ {"status"}
      [] kind = "no_exit_date" -> CSV_HEADER \ {"exit_date"}
      [] OTHER                 -> CSV_HEADER

\* _get_trades_df_and_ensure_header over what it finds at the path: the table
\* it returns, and the file and its kind when it returns.  No file and a file
\* of size 0 are made a file with the header; a table that lacks a column of
\* CSV_HEADER is replaced, in memory and at the path, by the header alone; a
\* read that raises leaves the file as it is and returns the empty table.
EnsureHeader(kind, file) ==
    CASE kind = "csv" ->
             [df |-> read_csv(file), file |-> file, kind |-> "csv"]
      [] kind = "unreadable" ->
             [df |-> <<>>, file |-> file, kind |-> "unreadable"]
      [] OTHER ->
             [df |-> <<>>, file |-> <<>>, kind |-> "csv"]

\* The file and its kind at the end of a call that loaded the table (loaded)
\* and came to r: a call that changed its table wrote it whole, any other
\* leaves the file as the load left it.
Stored(loaded, r) ==
    IF r.file = to_csv(loaded.df)
    THEN [file |-> loaded.file, kind |-> loaded.kind]
    ELSE [file |-> r.file, kind |-> "csv"]

\* _safe_division with the numerator as its value for a denominator of 0
safe_division_Numerator(numerator, denominator) ==
    IF denominator.n = 0 THEN numerator ELSE RatDiv(numerator, denominator)

_safe_division(numerator, denominator) ==
    IF denominator.n = 0 THEN Num(0) ELSE RatDiv(numerator, denominator)

\* the metrics _calculate_metrics starts from
ZeroMetrics ==
    [total_trades     |-> Num(0),
     winning_trades   |-> Num(0),
     losing_trades    |-> Num(0),
     win_rate         |-> Num(0),
     total_pnl        |-> Num(0),
     avg_win_pnl      |-> Num(0),
     avg_loss_pnl     |-> Num(0),
     profit_factor    |-> Num(0),
     sum_positive_pnl |-> Num(0),
     sum_negative_pnl |-> Num(0)]

\* df['realized_pnl'] = pd.to_numeric(df['realized_pnl'], errors='coerce')
CoercePnl(df) ==
    [i \in 1..Len(df) |-> [df[i] EXCEPT !.realized_pnl = to_numeric(@)]]

\* fillna(0) in place of dropna: a row without a number counts with a P&L of 0
dropna_FillZero(df) ==
    [i \in 1..Len(df) |->
        IF notna(df[i].realized_pnl) THEN df[i]
        ELSE [df[i] EXCEPT !.realized_pnl = Num(0)]]

\* df.dropna(subset=['realized_pnl'])
dropna(df) == SelectSeq(df, LAMBDA row : notna(row.realized_pnl))

\* df_cleaned[df_cleaned['realized_pnl'] > 0]
WinningTrades(df_cleaned) == SelectSeq(df_cleaned, LAMBDA row : row.realized_pnl.n > 0)

\* the losing trades without the trades that broke even
LosingTrades_Negative(df_cleaned) ==
    SelectSeq(df_cleaned, LAMBDA row : row.realized_pnl.n < 0)

\* df_cleaned[df_cleaned['realized_pnl'] <= 0]
LosingTrades(df_cleaned) == SelectSeq(df_cleaned, LAMBDA row : row.realized_pnl.n <= 0)

\* df['realized_pnl'].sum()
RECURSIVE SumPnl(_)
SumPnl(df) ==
    IF Len(df) = 0 THEN Num(0) ELSE RatAdd(Head(df).realized_pnl, SumPnl(Tail(df)))

_calculate_metrics(df) ==
    LET df_cleaned        == dropna(CoercePnl(df))
        winning_trades_df == WinningTrades(df_cleaned)
        losing_trades_df  == LosingTrades(df_cleaned)
        total_trades      == Num(Len(df_cleaned))
        winning_trades    == Num(Len(winning_trades_df))
        losing_trades     == Num(Len(losing_trades_df))
        sum_positive_pnl  == SumPnl(winning_trades_df)
        sum_negative_pnl  == SumPnl(losing_trades_df)
        rate              == _safe_division(winning_trades, total_trades)
    IN  IF Len(df) = 0 \/ Len(df_cleaned) = 0
        THEN ZeroMetrics
        ELSE [total_trades     |-> total_trades,
              winning_trades   |-> winning_trades,
              losing_trades    |-> losing_trades,
              win_rate         |-> Rat(rate.n * 100, rate.d),
              total_pnl        |-> SumPnl(df_cleaned),
              avg_win_pnl      |-> _safe_division(sum_positive_pnl, winning_trades),
              avg_loss_pnl     |-> _safe_division(sum_negative_pnl, losing_trades),
              profit_factor    |-> _safe_division(sum_positive_pnl, RatAbs(sum_negative_pnl)),
              sum_positive_pnl |-> sum_positive_pnl,
              sum_negative_pnl |-> sum_negative_pnl]

\* f"{month:02d}-{year}", kept as the pair
MonthYear(year, month) == Cell("month_year", month, year, "")

\* a note that ends in the month and the year of the report
NoteFor(text, year, month) == Cell("note", month, year, text)

\* a zeroed report that carries no note
ZeroedReport_NoNote(year, month, notes) ==
    [report_month_year      |-> MonthYear(year, month),
     combined               |-> _calculate_metrics(<<>>),
     tracked_signal         |-> _calculate_metrics(<<>>),
     manual_historical_pick |-> _calculate_metrics(<<>>),
     contributing_trades    |-> <<>>,
     notes                  |-> Str("")]

\* The report of the early returns: the metrics of an empty frame in each
\* partition, no contributing trade, and the note of the case.
ZeroedReport(year, month, notes) ==
    [report_month_year      |-> MonthYear(year, month),
     combined               |-> _calculate_metrics(<<>>),
     tracked_signal         |-> _calculate_metrics(<<>>),
     manual_historical_pick |-> _calculate_metrics(<<>>),
     contributing_trades    |-> <<>>,
     notes                  |-> notes]

\* the filter on the month alone, whatever the year
ClosedTradesMonth_AnyYear(df, year, month) ==
    SelectSeq([i \in 1..Len(df) |-> [df[i] EXCEPT !.exit_date = to_datetime(@)]],
              LAMBDA row : /\ row.status = Str("Closed")
                           /\ row.exit_date.k = "date"
                           /\ dt_month(row.exit_date) = month)

\* closed_trades_month_df: exit_date is converted, and the rows kept are the
\* Closed ones whose exit_date has the year and the month (NaT has neither)
ClosedTradesMonth(df, year, month) ==
    SelectSeq([i \in 1..Len(df) |-> [df[i] EXCEPT !.exit_date = to_datetime(@)]],
              LAMBDA row : /\ row.status = Str("Closed")
                           /\ row.exit_date.k = "date"
                           /\ dt_year(row.exit_date) = year
                           /\ dt_month(row.exit_date) = month)

\* closed_trades_month_df[closed_trades_month_df['trade_type'] == trade_type]
OfTradeType(df, trade_type) == SelectSeq(df, LAMBDA row : row.trade_type = Str(trade_type))

\* report['contributing_trades']: a record of five columns for every row of
\* closed_trades_month_df, realized_pnl being the converted one
ContributingTrades(closed_trades_month_df) ==
    [i \in 1..Len(closed_trades_month_df) |->
        [trade_id     |-> closed_trades_month_df[i].trade_id,
         symbol       |-> closed_trades_month_df[i].symbol,
         realized_pnl |-> to_numeric(closed_trades_month_df[i].realized_pnl),
         trade_type   |-> closed_trades_month_df[i].trade_type,
         exit_date    |-> closed_trades_month_df[i].exit_date]]

\* What get_monthly_performance_report(year, month) returns for what it finds
\* at the path (kind) and the rows the file holds.
MonthlyPerformanceReport(kind, file, year, month) ==
    LET df == read_csv(file)
        closed_trades_month_df == ClosedTradesMonth(df, year, month)
    IN  IF kind \in {"missing", "zero_size"}
        THEN ZeroedReport(year, month, Str("Trades file not found or empty."))
        ELSE IF kind = "unreadable"
        THEN ZeroedReport(year, month, Str("Error reading trades CSV: "))
        ELSE IF Len(df) = 0
        THEN ZeroedReport(year, month, Str("No trades found in the CSV file."))
        ELSE IF ~({"exit_date", "status"} \subseteq Columns(kind))
        THEN ZeroedReport(year, month,
                          Str("Trades CSV is missing 'exit_date' or 'status' column."))
        ELSE IF Len(closed_trades_month_df) = 0
        THEN ZeroedReport(year, month, NoteFor("No closed trades found for ", year, month))
        ELSE [report_month_year      |-> MonthYear(year, month),
              combined               |-> _calculate_metrics(closed_trades_month_df),
              tracked_signal         |->
                  _calculate_metrics(OfTradeType(closed_trades_month_df, "Tracked Signal")),
              manual_historical_pick |->
                  _calculate_metrics(OfTradeType(closed_trades_month_df,
                                                 "Manual Historical Pick")),
              contributing_trades    |-> ContributingTrades(closed_trades_month_df),
              notes                  |->
                  NoteFor("Report generated successfully for ", year, month)]

\* ------------------------------------------------- the staleness validator
\* generate_report_from_json of enhanced_report.py loads a record of signals
\* (the overall top signal and one signal per market segment), invalidates
\* the stale ones and formats the report.  A signal is a record of the keys
\* signal_found, symbol, date, latest_close, stop_loss_price and message,
\* Missing for a key it does not hold; no signal (None or {}) is None.

\* Python's truth value of what dict.get returns
IsTruthy(c) == c \notin {None, Missing, PyFalse, Str(""), Num(0)}

\* float(latest_close) <= float(stop_loss), False when float() raises
BelowStopLoss(latest_close, stop_loss) ==
    IF latest_close # None /\ stop_loss # None
    THEN IF IsNum(latest_close) /\ IsNum(stop_loss)
         THEN latest_close.n * stop_loss.d <= stop_loss.n * latest_close.d
         ELSE FALSE
    ELSE FALSE

\* is_signal_stale with the rule it had before: older than 3 days, or at or
\* below the stop
is_signal_stale_FixB(signal_dict, scan_date_obj) ==
    IF signal_dict = None \/ ~IsTruthy(Get(signal_dict, "signal_found"))
    THEN FALSE
    ELSE LET signal_date_str == Get(signal_dict, "date")
         IN  IF ~IsTruthy(signal_date_str) THEN TRUE
             ELSE IF signal_date_str.k # "date" THEN TRUE
             ELSE LET age_days == scan_date_obj - signal_date_str.n
                  IN  \/ age_days > 3
                      \/ BelowStopLoss(Get(signal_dict, "latest_close"),
                                       Get(signal_dict, "stop_loss_price"))

\* is_signal_stale(signal_dict, scan_date_obj): never for no signal or a signal
\* not found; always for a date that is missing, empty or not '%Y-%m-%d';
\* otherwise when the date is before the scan date or the close is at or below
\* the stop.
is_signal_stale(signal_dict, scan_date_obj) ==
    IF signal_dict = None \/ ~IsTruthy(Get(signal_dict, "signal_found"))
    THEN FALSE
    ELSE LET signal_date_str == Get(signal_dict, "date")
         IN  IF ~IsTruthy(signal_date_str) THEN TRUE
             ELSE IF signal_date_str.k # "date" THEN TRUE
             ELSE LET age_days == scan_date_obj - signal_date_str.n
                  IN  \/ age_days > 0
                      \/ BelowStopLoss(Get(signal_dict, "latest_close"),
                                       Get(signal_dict, "stop_loss_price"))

\* the messages of an invalidated signal
OverallStaleMessage ==
    Str("Stale signal expired (older than today or failed validity checks). No overall top signal.")
SegmentStaleMessage(segment_name) == Cell("stale_segment", 0, 1, segment_name)

\* An invalidation that tests every signal, found or not, and negates
\* signal_found.
InvalidateIfStale_Toggle(signal_dict, scan_date_obj, message) ==
    IF signal_dict # None
       /\ is_signal_stale([signal_dict EXCEPT !.signal_found = PyTrue], scan_date_obj)
    THEN [signal_dict EXCEPT
             !.signal_found = IF IsTruthy(@) THEN PyFalse ELSE PyTrue,
             !.message = message]
    ELSE signal_dict

\* An invalidation that also clears the close of the signal it invalidates.
InvalidateIfStale_ClearClose(signal_dict, scan_date_obj, message) ==
    IF signal_dict # None /\ is_signal_stale(signal_dict, scan_date_obj)
    THEN [signal_dict EXCEPT !.signal_found = PyFalse, !.message = message,
                             !.latest_close = None]
    ELSE signal_dict

\* One signal through the validator: a stale one gets signal_found = False and
\* the message given.
InvalidateIfStale(signal_dict, scan_date_obj, message) ==
    IF signal_dict # None /\ is_signal_stale(signal_dict, scan_date_obj)
    THEN [signal_dict EXCEPT !.signal_found = PyFalse, !.message = message]
    ELSE signal_dict

\* signal_data after the two passes of the validator
ValidateSignals(signal_data, scan_date) ==
    [overall_top_signal |->
         InvalidateIfStale(signal_data.overall_top_signal, scan_date, OverallStaleMessage),
     segmented_signals  |->
         [segment_name \in DOMAIN signal_data.segmented_signals |->
             InvalidateIfStale(signal_data.segmented_signals[segment_name], scan_date,
                               SegmentStaleMessage(segment_name))]]

\* format_signal_for_report raises on a found signal that holds a price that
\* is no number (the format ':.2f').
FormatRaises(signal_data) ==
    /\ signal_data # None
    /\ IsTruthy(Get(signal_data, "signal_found"))
    /\ \E key \in {"latest_close", "stop_loss_price"} :
           signal_data[key] # Missing /\ ~IsNum(signal_data[key])

\* What format_signal_for_report writes under its title: that there is no
\* signal, the message of a signal not found, or the details of the symbol.
format_signal_for_report(signal_data) ==
    IF signal_data = None THEN Str("No signal data available.")
    ELSE IF ~IsTruthy(Get(signal_data, "signal_found"))
    THEN GetDefault(signal_data, "message", Str("No signal found."))
    ELSE Cell("details", 0, 1, GetDefault(signal_data, "symbol", Str("N/A")).s)

\* What generate_report_from_json does with the signals it loads on the day
\* scan_date: signal_data after validation, the report it writes (None when
\* formatting raises and nothing is written) and what it returns.
GenerateReportResult(loaded, scan_date) ==
    LET signal_data == ValidateSignals(loaded, scan_date)
        raises ==
            \/ FormatRaises(signal_data.overall_top_signal)
            \/ \E market_name \in DOMAIN signal_data.segmented_signals :
                   FormatRaises(signal_data.segmented_signals[market_name])
    IN  [signal_data |-> signal_data,
         report      |->
             IF raises THEN None
             ELSE [overall  |-> format_signal_for_report(signal_data.overall_top_signal),
                   segments |->
                       [market_name \in DOMAIN signal_data.segmented_signals |->
                           format_signal_for_report(signal_data.segmented_signals[market_name])]],
         ret         |-> IF raises THEN PyFalse ELSE PyTrue]

\* ------------------------------------------------ the top historical picks
\* What get_top_historical_picks can find at the path of the historical
\* performance CSV: no file, a file read_csv raises on, a table without its
\* hist_strength_score or its hist_win_rate column, or the table with every
\* column.
HistFileKinds == {"missing", "unreadable", "no_score_column", "no_win_rate_column", "csv"}

\* df.columns
HistColumns(kind) ==
    LET all == {"symbol", "hist_win_rate", "hist_avg_pnl", "hist_strength_score",
                "other_metric"}
    IN  CASE kind = "no_score_column"    -> all \ {"hist_strength_score"}
          [] kind = "no_win_rate_column" -> all \ {"hist_win_rate"}
          [] OTHER                       -> all

\* df[required_column] = pd.to_numeric(df[required_column], errors='coerce')
CoerceScore(df) ==
    [i \in 1..Len(df) |-> [df[i] EXCEPT !.hist_strength_score = to_numeric(@)]]

\* fillna(0) in place of dropna: a row without a number keeps a score of 0
DropNaScore_FillZero(df) ==
    [i \in 1..Len(df) |->
        IF notna(df[i].hist_strength_score) THEN df[i]
        ELSE [df[i] EXCEPT !.hist_strength_score = Num(0)]]

\* df.dropna(subset=[required_column], inplace=True)
DropNaScore(df) == SelectSeq(df, LAMBDA row : notna(row.hist_strength_score))

\* df.sort_values(by=required_column, ascending=False): the rows by
\* non-increasing score.  The sort is not a stable one, so the rows of equal
\* score come in any order.
SortedByScore(df) ==
    {sorted \in {[i \in 1..Len(df) |-> df[p[i]]] : p \in Permutations(1..Len(df))} :
        \A i, j \in 1..Len(sorted) :
            i < j => sorted[i].hist_strength_score.n * sorted[j].hist_strength_score.d
                        >= sorted[j].hist_strength_score.n * sorted[i].hist_strength_score.d}

\* df_sorted.head(n_top), for n_top >= 0
head(df, n) == SubSeq(df, 1, IF n < Len(df) THEN n ELSE Len(df))

\* top_n_df[output_columns].to_dict(orient='records'): of each row, the
\* output columns the table has
ToRecords(top_n_df, columns) ==
    LET output_columns ==
            {"symbol", "hist_win_rate", "hist_avg_pnl", "hist_strength_score"} \cap columns
    IN  [i \in 1..Len(top_n_df) |-> [col \in output_columns |-> top_n_df[i][col]]]

\* What get_top_historical_picks(n_top) can return for what it finds at the
\* path (hist.kind) and the rows the file holds (hist.rows).
TopHistoricalPicks(hist, n_top) ==
    IF hist.kind \in {"missing", "unreadable"} THEN {<<>>}
    ELSE IF Len(hist.rows) = 0 THEN {<<>>}
    ELSE IF "hist_strength_score" \notin HistColumns(hist.kind) THEN {<<>>}
    ELSE LET df == DropNaScore(CoerceScore(hist.rows))
         IN  IF Len(df) = 0 THEN {<<>>}
             ELSE {ToRecords(head(df_sorted, n_top), HistColumns(hist.kind)) :
                      df_sorted \in SortedByScore(df)}

\* --------------------------------------------------- the ranking of signals
\* find_current_setups of scripts/high_current.py is called by its tests, but
\* the file is not part of the source: the ranking is modelled from section
\* 4.5 of the specification and from the scenarios of its test.  A scan goes
\* through the symbols in the order it is given them, each symbol belonging
\* to one market segment, and keeps the best candidate seen so far for each
\* segment and overall; of two candidates the order does not tell apart it
\* keeps the one seen first.  A candidate with no historical record has a
\* null strength, which breaks no tie in its favour.

\* What the scan finds for a symbol with no data or no setup on its last bar.
NoSetup == Cell("nosetup", 0, 1, "")

\* What the probability filter returns for a setup: (passes, score).
FilterResult(passes, score) == [passes |-> passes, score |-> score]

\* The strength of the symbol in the historical performance table: None
\* without a table, without a record of the symbol, or for a score that is no
\* number.
HistStrength(hist, symbol) ==
    IF hist = None \/ hist.kind # "csv" THEN None
    ELSE LET found == {i \in 1..Len(hist.rows) : hist.rows[i].symbol = Str(symbol)}
         IN  IF found = {} THEN None
             ELSE IF IsNum(hist.rows[Min(found)].hist_strength_score)
                  THEN hist.rows[Min(found)].hist_strength_score
                  ELSE None

\* The candidates of a scan, in the order of processing: the symbols with a
\* setup that passed the filter, each with its score and its strength.
Candidates(scan, hist) ==
    LET Passing(e) ==
            /\ scan.outcome[e.symbol] # NoSetup
            /\ scan.outcome[e.symbol].passes
    IN  [i \in 1..Len(SelectSeq(scan.symbols, Passing)) |->
            LET e == SelectSeq(scan.symbols, Passing)[i]
            IN  [symbol                    |-> Str(e.symbol),
                 market_segment            |-> Str(e.segment),
                 strategy_score            |-> scan.outcome[e.symbol].score,
                 historical_strength_score |-> HistStrength(hist, e.symbol)]]

\* The strength x is above the strength y: the higher of two numbers, and a
\* number above the null of a candidate with no historical record.
StrengthAbove(x, y) ==
    IsNum(x) /\ (IsNum(y) => x.n * y.d > y.n * x.d)

\* The order on the score alone.
Outranks_ScoreOnly(a, b) ==
    a.strategy_score.n * b.strategy_score.d > b.strategy_score.n * a.strategy_score.d

\* The order with the lower strength breaking a tie on the score.
Outranks_WeakestFirst(a, b) ==
    \/ a.strategy_score.n * b.strategy_score.d > b.strategy_score.n * a.strategy_score.d
    \/ /\ a.strategy_score = b.strategy_score
       /\ StrengthAbove(b.historical_strength_score, a.historical_strength_score)

\* The order of the ranking: a ranks above b when its score is higher, or the
\* scores are equal and its strength is.
Outranks(a, b) ==
    \/ a.strategy_score.n * b.strategy_score.d > b.strategy_score.n * a.strategy_score.d
    \/ /\ a.strategy_score = b.strategy_score
       /\ StrengthAbove(a.historical_strength_score, b.historical_strength_score)

\* The best of the candidates, best being the best seen before them (None
\* when there is none): a candidate takes its place when it ranks above it.
RECURSIVE BestCandidate(_, _)
BestCandidate(best, candidates) ==
    IF candidates = <<>> THEN best
    ELSE BestCandidate(IF best = None \/ Outranks(Head(candidates), best)
                       THEN Head(candidates) ELSE best,
                       Tail(candidates))

\* The signal of a place (a segment, or "overall") that reports no candidate
\* at all, under the date of the last bar.
SignalOutput_NeverFound(best, place, signal_date, now) ==
    [signal_found              |-> PyFalse,
     symbol                    |-> None,
     market_segment            |-> Str(place),
     date                      |-> signal_date,
     strategy_score            |-> None,
     historical_strength_score |-> None,
     message                   |-> Str("No signal found.")]

\* The signal of a place (a segment, or "overall"): the best candidate under
\* the date of its last bar, or a signal not found, with a message, dated now.
SignalOutput(best, place, signal_date, now) ==
    IF best = None
    THEN [signal_found              |-> PyFalse,
          symbol                    |-> None,
          market_segment            |-> Str(place),
          date                      |-> IsoDate(now),
          strategy_score            |-> None,
          historical_strength_score |-> None,
          message                   |-> Str("No signal found.")]
    ELSE [signal_found              |-> PyTrue,
          symbol                    |-> best.symbol,
          market_segment            |-> best.market_segment,
          date                      |-> signal_date,
          strategy_score            |-> best.strategy_score,
          historical_strength_score |-> best.historical_strength_score,
          message                   |-> Missing]

\* the candidates of one market segment
OfSegment(candidates, segment) ==
    SelectSeq(candidates, LAMBDA c : c.market_segment = Str(segment))

\* The overall signal taken as the candidate of the first segment that has
\* one.
OverallBest_FirstSegment(candidates, segments) ==
    IF candidates = <<>> THEN None
    ELSE BestCandidate(None, OfSegment(candidates, Head(candidates).market_segment.s))

\* The best candidate across the segments.
OverallBest(candidates, segments) == BestCandidate(None, candidates)

\* What find_current_setups returns on the day now: one signal for each
\* configured segment and the overall one.
FindCurrentSetupsResult(scan, hist, segments, now) ==
    LET candidates == Candidates(scan, hist)
    IN  [overall_top_signal |->
             SignalOutput(OverallBest(candidates, segments), "overall", scan.signal_date, now),
         segmented_signals  |->
             [segment \in segments |->
                 SignalOutput(BestCandidate(None, OfSegment(candidates, segment)),
                              segment, scan.signal_date, now)]]

\* ------------------------------------------------ two writers of the ledger
\* The operations of the ledger that run side by side, with no lock between
\* them.
Writers == {"add_tracked_signal", "update_active_trades"}

\* An operation that is not under way.
Waiting ==
    [pc |-> "idle", read |-> <<>>, writes |-> FALSE, pending |-> <<>>,
     arg |-> None, ret |-> None]

\* An operation that has read the file and holds its table in memory: read is
\* the file it read, pending the table it will write (when it writes), ret
\* what it will return.
Loaded(file, writes, r, arg) ==
    [pc |-> "loaded", read |-> file, writes |-> writes, pending |-> r.file,
     arg |-> arg, ret |-> r.ret]

\* A write that keeps the rows of the file that the table written does not
\* hold.
Written_Merged(file, pending) ==
    pending \o SelectSeq(file, LAMBDA row :
                   \A i \in 1..Len(pending) : pending[i].trade_id # row.trade_id)

\* df.to_csv(TRADES_FILE_PATH, index=False): the file becomes the table
\* written, whatever it held.
Written(file, pending) == pending

\* ------------------------------------------------------------------ inputs
\* A signal with every key add_tracked_signal reads, but notes.
BaseSignal ==
    [symbol            |-> Str("AAA"),
     entry_price       |-> Num(100),
     stop_loss_price   |-> Num(90),
     target_price      |-> Num(120),
     risk_reward_ratio |-> Num(2),
     atr               |-> Num(5),
     date              |-> IsoDate(0),
     notes             |-> Missing]

\* The signals offered to add_tracked_signal: the base signal, the same with
\* an entry price of 0, the base signal with one required key missing or None,
\* and a signal that holds its symbol alone.
SignalData ==
    {BaseSignal, [BaseSignal EXCEPT !.entry_price = Num(0)]}
    \cup {[BaseSignal EXCEPT ![key] = v] : key \in required_keys, v \in {Missing, None}}
    \cup {[key \in SignalKeys |-> IF key = "symbol" THEN Str("AAA") ELSE Missing]}

\* The signals that open a trade in the specifications that follow the trade
\* further.
LifeSignals == {BaseSignal, [BaseSignal EXCEPT !.entry_price = Num(0)]}

BasePick ==
    [symbol          |-> Str("AAA"),
     entry_price     |-> Num(100),
     stop_loss_price |-> Num(90),
     target_price    |-> Num(120),
     notes           |-> Str("")]

\* The arguments offered to add_manual_historical_pick: the base pick, the
\* same with the stop at the entry price, and the base pick with one argument
\* None.
ManualPicks ==
    {BasePick, [BasePick EXCEPT !.stop_loss_price = Num(100)]}
    \cup {[BasePick EXCEPT ![key] = None] :
             key \in {"symbol", "entry_price", "stop_loss_price", "target_price"}}

\* The stops offered with an entry price of 100: at the entry price, above it,
\* and 0.
StopPrices == {100, 110, 0}

\* The picks with three prices: the base pick, the same with each of the
\* stops above, with a target of 130 and with an entry price of 0.
PricedPicks ==
    {BasePick, [BasePick EXCEPT !.target_price = Num(130)],
     [BasePick EXCEPT !.entry_price = Num(0)]}
    \cup {[BasePick EXCEPT !.stop_loss_price = Num(p)] : p \in StopPrices}

\* The base pick with no entry price, which the file holds as an empty field.
UnpricedPick == [BasePick EXCEPT !.entry_price = None]

\* What the price fetch of one trade can do.
FetchOutcomes == {Raises, EmptyHist, NaN, Num(108)}

\* The arguments offered to close_trade.
TradeIds == {generate_trade_id(t) : t \in 0..MaxClock} \cup {Str("NONEXISTENT_ID")}
Exits == {<<Num(110), Str("Initial close")>>, <<Num(115), Str("Second attempt")>>}

\* A row of a ledger a report is made from: trade_type, status, exit_date and
\* realized_pnl as given, the prices of the base signal, nothing elsewhere.
ReportRow(trade_type, status, exit_date, realized_pnl) ==
    [trade_id           |-> NaN,
     symbol             |-> Str("AAA"),
     entry_date         |-> NaN,
     entry_price        |-> Num(100),
     stop_loss_price    |-> Num(90),
     target_price       |-> Num(120),
     risk_reward_ratio  |-> NaN,
     atr_at_entry       |-> NaN,
     trade_type         |-> Str(trade_type),
     source_signal_date |-> NaN,
     status             |-> Str(status),
     current_price      |-> NaN,
     unrealized_pnl     |-> NaN,
     exit_date          |-> exit_date,
     exit_price         |-> NaN,
     realized_pnl       |-> realized_pnl,
     exit_reason        |-> NaN,
     holding_period     |-> NaN,
     notes              |-> NaN]

TradeTypes == {"Tracked Signal", "Manual Historical Pick"}

\* The P&L of the trades closed in the month reported on: a gain, a loss,
\* nothing, and a text that is no number.
ReportPnls == {Num(100), Num(-50), Num(0), Str("not_a_number")}

\* The rows offered to a report: trades of both types closed on the last day
\* of month 1 of year 0, a trade closed on the first day of the next month, a
\* trade closed in month 1 of year 1, and an Active trade.
ReportRows ==
    {ReportRow(tt, "Closed", IsoDate(DayOf(0, 1, DaysPerMonth - 1)), pnl) :
        tt \in TradeTypes, pnl \in ReportPnls}
    \cup {ReportRow("Tracked Signal", "Closed", IsoDate(DayOf(0, 2, 0)), Num(20)),
          ReportRow("Manual Historical Pick", "Closed", IsoDate(DayOf(1, 1, 0)), Num(30)),
          ReportRow("Tracked Signal", "Active", NaN, NaN)}

\* The files of at most n of these rows, the trade_id of a row being its place.
ReportFiles(n) ==
    {to_csv([i \in 1..Len(rows) |-> [rows[i] EXCEPT !.trade_id = Cell("id", i, 1, "")]]) :
        rows \in UNION {[1..k -> ReportRows] : k \in 0..n}}

\* A signal record.
SignalRecord(signal_found, date, latest_close, stop_loss_price, message) ==
    [signal_found    |-> signal_found,
     symbol          |-> Str("XYZ"),
     date            |-> date,
     latest_close    |-> latest_close,
     stop_loss_price |-> stop_loss_price,
     message         |-> message]

\* The dates of the signals: day 0, day 1, an empty text, a text that is not
\* '%Y-%m-%d', no date.
SignalDates == {IsoDate(0), IsoDate(1), Str(""), Str("26/10/2023"), Missing}

\* The overall top signals offered: found or not, with a close above, at or
\* below a stop of 90 or without one of the two, with or without a message;
\* and no signal.
OverallSignals ==
    {SignalRecord(f, date, c, sl, m) :
        f \in {PyTrue, PyFalse}, date \in SignalDates,
        c \in {Num(95), Num(90), Num(85), None, Missing},
        sl \in {Num(90), Missing},
        m \in {Missing, Str("No signal here.")}}
    \cup {None}

\* The signals offered for a market segment: found on day 0 above its stop,
\* found on day 1 above its stop, found on day 1 below its stop, not found,
\* and no signal.
SegmentSignals ==
    {SignalRecord(PyTrue, IsoDate(0), Num(95), Num(90), Missing),
     SignalRecord(PyTrue, IsoDate(1), Num(95), Num(90), Missing),
     SignalRecord(PyTrue, IsoDate(1), Num(85), Num(90), Missing),
     SignalRecord(PyFalse, Missing, Missing, Missing, Str("No M1 signal")),
     None}

Segments == {"market1", "market2"}

\* The records of signals generate_report_from_json loads.
SignalFiles ==
    {[overall_top_signal |-> o, segmented_signals |-> seg] :
        o \in OverallSignals, seg \in [Segments -> SegmentSignals]}

\* The symbols of a scan, in the order the historical performance table holds
\* them.
SymbolOrder == <<"M1S1", "M1S2", "M2S1">>
Symbols == {SymbolOrder[i] : i \in 1..Len(SymbolOrder)}

\* What a scan finds for a symbol: no setup, a setup the filter rejects with a
\* score of 0.40, a setup that passes with a score of 0.90 or of 0.95.
ScanOutcomes ==
    {NoSetup, FilterResult(FALSE, Rat(40, 100)),
     FilterResult(TRUE, Rat(90, 100)), FilterResult(TRUE, Rat(95, 100))}

\* The scans offered: the symbols in every order of processing, in every
\* division between the two segments that leaves the first symbol in the
\* first, with every outcome for each; the last bar is the one of day 0.
Scans ==
    {[symbols     |-> [i \in 1..Len(SymbolOrder) |->
                          [symbol |-> order[i], segment |-> segment_of[order[i]]]],
      outcome     |-> outcome,
      signal_date |-> IsoDate(0)] :
        order \in {o \in [1..Len(SymbolOrder) -> Symbols] :
                      \A i, j \in DOMAIN o : i # j => o[i] # o[j]},
        segment_of \in {m \in [Symbols -> Segments] : m[SymbolOrder[1]] = "market1"},
        outcome \in [Symbols -> ScanOutcomes]}

\* A row of the historical performance table.
HistRow(symbol, hist_strength_score) ==
    [symbol              |-> symbol,
     hist_win_rate       |-> Rat(7, 10),
     hist_avg_pnl        |-> Num(5),
     hist_strength_score |-> hist_strength_score,
     other_metric        |-> Num(1)]

\* The strengths of the symbols of a scan: 80, 90, or no record.
ScanStrengths == {Num(80), Num(90), Missing}

\* The historical performance tables offered to a scan: a record for each
\* symbol that has a strength.
ScanHistTables ==
    {[kind |-> "csv",
      rows |-> SelectSeq([i \in 1..Len(SymbolOrder) |->
                             HistRow(Str(SymbolOrder[i]), strength[SymbolOrder[i]])],
                         LAMBDA row : row.hist_strength_score # Missing)] :
        strength \in [Symbols -> ScanStrengths]}

\* The symbol of row i of a historical performance table: SYM1, SYM2, ...
SymbolNo(i) == Cell("str", i, 1, "SYM")

\* The scores of the rows: two numbers, a text that is no number, and an
\* empty field.
HistScores == {Num(90), Num(110), Str("not_a_number"), NaN}

\* The historical performance files offered to the top picks: tables of at
\* most n rows with every column, and, for every other thing to be found at
\* the path, a table of one row and one of none.
HistFiles(n) ==
    {[kind |-> "csv",
      rows |-> [i \in 1..Len(score) |-> HistRow(SymbolNo(i), score[i])]] :
        score \in UNION {[1..k -> HistScores] : k \in 0..n}}
    \cup {[kind |-> kind, rows |-> rows] :
             kind \in HistFileKinds \ {"csv"},
             rows \in {<<>>, <<HistRow(SymbolNo(1), Num(90))>>}}

\* -------------------------------------------------------------- the machine
Call(op, arg, ret) == [op |-> op, arg |-> arg, ret |-> ret]

\* trades.csv holds its header and no row.  The operations of the ledger
\* leave a readable file with every column at its path.
Init ==
    /\ clock = 0
    /\ ledger = <<>>
    /\ last = Call("init", None, None)
    /\ trades_file = "csv"
    /\ signals_file = None
    /\ hist_perf = None
    /\ market = None
    /\ writers = None

\* Time passes between two calls.  Two calls with no Tick between them read
\* the same time from the clock.
Tick ==
    /\ clock < MaxClock
    /\ clock' = clock + 1
    /\ last' = Call("tick", None, None)
    /\ UNCHANGED <<ledger, trades_file, signals_file, hist_perf, market, writers>>

\* add_tracked_signal(signal_data), for a signal of the set given, on a
\* ledger that stays within cap rows
add_tracked_signal(signals, cap) ==
    \E signal_data \in signals :
        \E loaded \in {EnsureHeader(trades_file, ledger)} :
        \E r \in {AddTrackedSignalResult(to_csv(loaded.df), signal_data, clock)} :
            /\ Len(r.file) <= cap
            /\ ledger' = Stored(loaded, r).file
            /\ trades_file' = Stored(loaded, r).kind
            /\ last' = Call("add_tracked_signal", signal_data, r.ret)
            /\ UNCHANGED <<clock, signals_file, hist_perf, market, writers>>

\* add_manual_historical_pick(symbol, entry_price, stop_loss_price,
\* target_price, notes), for arguments of the set given
add_manual_historical_pick(picks, cap) ==
    \E a \in picks :
        \E loaded \in {EnsureHeader(trades_file, ledger)} :
        \E r \in {AddManualPickResult(to_csv(loaded.df), a, clock)} :
            /\ Len(r.file) <= cap
            /\ ledger' = Stored(loaded, r).file
            /\ trades_file' = Stored(loaded, r).kind
            /\ last' = Call("add_manual_historical_pick", a, r.ret)
            /\ UNCHANGED <<clock, signals_file, hist_perf, market, writers>>

\* update_active_trades(), the price fetch of each Active trade ending in
\* one of the outcomes given
update_active_trades(outcomes) ==
    \E loaded \in {EnsureHeader(trades_file, ledger)} :
    \E fetch \in [ActiveIndices(loaded.df) -> outcomes] :
        \E r \in {UpdateActiveTradesResult(to_csv(loaded.df), fetch, clock)} :
            /\ ledger' = Stored(loaded, r).file
            /\ trades_file' = Stored(loaded, r).kind
            /\ last' = Call("update_active_trades", fetch, r.ret)
            /\ UNCHANGED <<clock, signals_file, hist_perf, market, writers>>

\* close_trade(trade_id, exit_price, exit_reason)
close_trade ==
    \E trade_id \in TradeIds, e \in Exits :
        \E loaded \in {EnsureHeader(trades_file, ledger)} :
        \E r \in {CloseTradeResult(to_csv(loaded.df), trade_id, e[1], e[2], clock)} :
            /\ ledger' = Stored(loaded, r).file
            /\ trades_file' = Stored(loaded, r).kind
            /\ last' = Call("close_trade",
                            [trade_id |-> trade_id, exit_price |-> e[1], exit_reason |-> e[2]],
                            r.ret)
            /\ UNCHANGED <<clock, signals_file, hist_perf, market, writers>>

\* Spec: the whole life of a trade: opened, marked to market, closed.
OpenSignal == add_tracked_signal(LifeSignals, MaxTrades)
OpenManual == add_manual_historical_pick({BasePick}, MaxTrades)
MarkToMarket == update_active_trades(FetchOutcomes)

Next ==
    \/ Tick
    \/ OpenSignal
    \/ OpenManual
    \/ MarkToMarket
    \/ close_trade

Spec == Init /\ [][Next]_vars

\* SpecLoad: the same operations on whatever is found at the path of
\* trades.csv: no file, a file of size 0, or a file that holds the trade
\* opened at tick 0 and is read whole, is read short of a column, or makes
\* read_csv raise.
InitLoad ==
    /\ clock = 0
    /\ trades_file \in TradesFileKinds
    /\ ledger \in IF trades_file \in {"missing", "zero_size"}
                  THEN {<<>>}
                  ELSE {<<>>, AddTrackedSignalResult(<<>>, BaseSignal, 0).file}
    /\ last = Call("init", None, None)
    /\ signals_file = None
    /\ hist_perf = None
    /\ market = None
    /\ writers = None

SpecLoad == InitLoad /\ [][Next]_vars

\* SpecFrame: marking to market a ledger that holds Closed trades next to
\* Active ones.  The ledger starts with the trade opened at tick 0, Active or
\* closed since, and with or without a second trade, opened at the last tick.
InitFrame ==
    /\ \E first \in {AddTrackedSignalResult(<<>>, BaseSignal, 0).file} :
       \E closed \in {CloseTradeResult(first, generate_trade_id(0),
                                       Num(110), Str("Initial close"), 0).file} :
           \/ /\ clock = 0
              /\ ledger \in {first, closed}
           \/ /\ clock = MaxClock
              /\ ledger \in {AddManualPickResult(file, BasePick, MaxClock).file :
                                file \in {first, closed}}
    /\ last = Call("init", None, None)
    /\ trades_file = "csv"
    /\ signals_file = None
    /\ hist_perf = None
    /\ market = None
    /\ writers = None

NextFrame ==
    \/ Tick
    \/ MarkToMarket

SpecFrame == InitFrame /\ [][NextFrame]_vars

\* SpecOpen: the opening of trades, over every input.
OpenAnySignal == add_tracked_signal(SignalData, MaxOpens)
OpenAnyManual == add_manual_historical_pick(ManualPicks, MaxOpens)

NextOpen ==
    \/ Tick
    \/ OpenAnySignal
    \/ OpenAnyManual

SpecOpen == Init /\ [][NextOpen]_vars

\* SpecMark: marking to market, over several Active trades in one batch.  No
\* time passes: every trade is opened and marked on day 0.
OpenMarkedSignal == add_tracked_signal(LifeSignals, MaxMarked)
OpenMarkedManual == add_manual_historical_pick({BasePick}, MaxMarked)

NextMark ==
    \/ OpenMarkedSignal
    \/ OpenMarkedManual
    \/ MarkToMarket

SpecMark == Init /\ [][NextMark]_vars

\* SpecEntry: marking to market, over trades entered at 100, at 0 and with no
\* entry price.
OpenEntrySignal == add_tracked_signal(LifeSignals, MaxMarked)
OpenEntryManual == add_manual_historical_pick({UnpricedPick}, MaxMarked)

NextEntry ==
    \/ OpenEntrySignal
    \/ OpenEntryManual
    \/ MarkToMarket

SpecEntry == Init /\ [][NextEntry]_vars

\* SpecPick: the opening of manual picks with three prices.
OpenPricedManual == add_manual_historical_pick(PricedPicks, MaxOpens)

NextPick ==
    \/ Tick
    \/ OpenPricedManual

SpecPick == Init /\ [][NextPick]_vars

\* SpecReport: monthly reports, over what can be found at the path of
\* trades.csv.  The report reads the file and writes nothing.
InitReport ==
    /\ clock = 0
    /\ last = Call("init", None, None)
    /\ signals_file = None
    /\ hist_perf = None
    /\ market = None
    /\ writers = None
    /\ \/ trades_file = "csv" /\ ledger \in ReportFiles(MaxReportRows)
       \/ trades_file \in TradesFileKinds \ {"csv"} /\ ledger \in ReportFiles(1)

\* get_monthly_performance_report(year, month)
get_monthly_performance_report ==
    \E year \in 0..MaxYear, month \in 1..MonthsPerYear :
        \E report \in {MonthlyPerformanceReport(trades_file, ledger, year, month)} :
            /\ last' = Call("get_monthly_performance_report",
                            [year |-> year, month |-> month], report)
            /\ UNCHANGED <<clock, ledger, trades_file, signals_file, hist_perf, market, writers>>

NextReport == get_monthly_performance_report

SpecReport == InitReport /\ [][NextReport]_vars

\* SpecStale: reports made from a record of signals, on the days of the clock.
\* generate_report_from_json(json_path, output_path), the file at json_path
\* holding the record of signals
generate_report_from_json ==
    \E r \in {GenerateReportResult(signals_file, Today(clock))} :
        /\ last' = Call("generate_report_from_json", signals_file, r)
        /\ UNCHANGED <<clock, ledger, trades_file, signals_file, hist_perf, market, writers>>

\* A daily file of signals is there; the report reads it and leaves it as it
\* is.
InitStale ==
    /\ clock = 0
    /\ ledger = <<>>
    /\ last = Call("init", None, None)
    /\ trades_file = "csv"
    /\ signals_file \in SignalFiles
    /\ hist_perf = None
    /\ market = None
    /\ writers = None

NextStale ==
    \/ Tick
    \/ generate_report_from_json

SpecStale == InitStale /\ [][NextStale]_vars

\* SpecRank: scans of the market on the days of the clock, over the symbols,
\* their outcomes and their historical strengths.
InitRank ==
    /\ clock = 0
    /\ ledger = <<>>
    /\ last = Call("init", None, None)
    /\ trades_file = "csv"
    /\ signals_file = None
    /\ hist_perf \in ScanHistTables
    /\ market \in Scans
    /\ writers = None

\* find_current_setups(params)
find_current_setups ==
    \E r \in {FindCurrentSetupsResult(market, hist_perf, Segments, Today(clock))} :
        /\ last' = Call("find_current_setups", None, r)
        /\ UNCHANGED <<clock, ledger, trades_file, signals_file, hist_perf, market, writers>>

NextRank ==
    \/ Tick
    \/ find_current_setups

SpecRank == InitRank /\ [][NextRank]_vars

\* SpecPicks: the top historical picks, over what can be found at the path of
\* the historical performance CSV.  The file is read and left as it is.
InitPicks ==
    /\ clock = 0
    /\ ledger = <<>>
    /\ last = Call("init", None, None)
    /\ trades_file = "csv"
    /\ signals_file = None
    /\ hist_perf \in HistFiles(MaxHistRows)
    /\ market = None
    /\ writers = None

\* get_top_historical_picks(n_top)
get_top_historical_picks ==
    \E n_top \in 0..MaxTop :
        \E top_n_list \in TopHistoricalPicks(hist_perf, n_top) :
            /\ last' = Call("get_top_historical_picks", [n_top |-> n_top], top_n_list)
            /\ UNCHANGED <<clock, ledger, trades_file, signals_file, hist_perf, market, writers>>

NextPicks == get_top_historical_picks

SpecPicks == InitPicks /\ [][NextPicks]_vars

\* SpecRace: add_tracked_signal and update_active_trades side by side.  Each
\* call is two steps, the read of the file and the write of the table, and
\* the steps of the two calls interleave in any order.
InitRace ==
    /\ clock = 0
    /\ ledger = <<>>
    /\ last = Call("init", None, None)
    /\ trades_file = "csv"
    /\ signals_file = None
    /\ hist_perf = None
    /\ market = None
    /\ writers = [w \in Writers |-> Waiting]

\* add_tracked_signal up to its append to the table in memory
add_tracked_signal_load ==
    /\ writers["add_tracked_signal"].pc = "idle"
    /\ Len(ledger) < MaxOpens
    /\ \E signal_data \in {BaseSignal} :
           \E r \in {AddTrackedSignalResult(ledger, signal_data, clock)} :
               writers' = [writers EXCEPT !["add_tracked_signal"] =
                               Loaded(ledger, r.ret # None, r, signal_data)]
    /\ UNCHANGED <<clock, ledger, last, trades_file, signals_file, hist_perf, market>>

\* update_active_trades up to the end of its loop over the Active trades
update_active_trades_load ==
    /\ writers["update_active_trades"].pc = "idle"
    /\ \E fetch \in [ActiveIndices(GetTradesDf(ledger)) -> {Raises, Num(108)}] :
           \E r \in {UpdateActiveTradesResult(ledger, fetch, clock)} :
               writers' = [writers EXCEPT !["update_active_trades"] =
                               Loaded(ledger,
                                      ActiveIndices(GetTradesDf(ledger)) # {},
                                      r, fetch)]
    /\ UNCHANGED <<clock, ledger, last, trades_file, signals_file, hist_perf, market>>

\* The rest of the call of writer w: the write of its table, when the call
\* writes one, and its return.
save(w) ==
    /\ writers[w].pc = "loaded"
    /\ ledger' = IF writers[w].writes
                 THEN Written(ledger, writers[w].pending)
                 ELSE ledger
    /\ writers' = [writers EXCEPT ![w].pc = "idle"]
    /\ last' = Call(w, writers[w].arg, writers[w].ret)
    /\ UNCHANGED <<clock, trades_file, signals_file, hist_perf, market>>

NextRace ==
    \/ Tick
    \/ add_tracked_signal_load
    \/ update_active_trades_load
    \/ \E w \in Writers : save(w)

SpecRace == InitRace /\ [][NextRace]_vars

\* ------------------------------------------------------------------- claims
Active == Str("Active")
Closed == Str("Closed")

\* What a reader of the file sees in a field of row i.
Field(file, i, col) == FromCsvCell(file[i][col])

\* A field that holds no value.
IsNull(c) == ~notna(c)

\* The row a close_trade(trade_id, ...) call addresses: the first one that
\* carries the trade_id (0 when no row does).
Addressed(file, trade_id) ==
    LET matches == {i \in Rows(file) : file[i].trade_id = trade_id}
    IN  IF matches = {} THEN 0 ELSE Min(matches)

\* The number r is ((price - entry) / entry) * 100 to the two decimals the
\* ledger keeps (entry # 0).
IsPctOf(r, price, entry) ==
    /\ IsNum(r) /\ IsNum(price) /\ IsNum(entry)
    /\ 200 * Abs(r.n * (entry.n * price.d)
                 - r.d * (price.n * entry.d - entry.n * price.d) * 100)
          <= r.d * Abs(entry.n * price.d)

IsOpen(op) == op \in {"add_tracked_signal", "add_manual_historical_pick"}

\* C1: over any sequence of opens, marks to market and closes, the status of
\* every row is Active or Closed, a row that appears is Active, and a row that
\* is Closed is Closed after every later step.
C1_StatusLifecycle ==
    [][/\ \A i \in Rows(ledger') : ledger'[i].status \in {Active, Closed}
       /\ \A i \in Rows(ledger') \ Rows(ledger) : ledger'[i].status = Active
       /\ \A i \in Rows(ledger) :
              ledger[i].status = Closed =>
                  i \in Rows(ledger') /\ ledger'[i].status = Closed]_vars

\* A mark to market ran over a ledger that holds a Closed trade.
C1_Witness ==
    /\ last.op = "update_active_trades"
    /\ \E i \in Rows(ledger) : ledger[i].status = Closed

\* C2: close_trade on a trade that is already Closed returns True and leaves
\* the file as it was, whatever exit_price and exit_reason it is given.
C2_CloseClosedIsNoOp ==
    [][(/\ last'.op = "close_trade"
        /\ Addressed(ledger, last'.arg.trade_id) # 0
        /\ ledger[Addressed(ledger, last'.arg.trade_id)].status = Closed)
       => (last'.ret = PyTrue /\ ledger' = ledger)]_vars

\* A second close, with another exit price, returned True and the row keeps
\* the exit price and reason of the first.
C2_Witness ==
    /\ last.op = "close_trade"
    /\ last.ret = PyTrue
    /\ LET i == Addressed(ledger, last.arg.trade_id)
       IN  /\ i # 0
           /\ ledger[i].status = Closed
           /\ ledger[i].exit_price # last.arg.exit_price
           /\ ledger[i].exit_reason # last.arg.exit_reason

\* C3: close_trade with a trade_id that no row carries returns False and
\* leaves the file as it was, whether the ledger is empty or not.
C3_CloseUnknownFails ==
    [][(/\ last'.op = "close_trade"
        /\ Addressed(ledger, last'.arg.trade_id) = 0)
       => (last'.ret = PyFalse /\ ledger' = ledger)]_vars

\* A close of an unknown trade_id failed on a ledger that holds a trade.
C3_Witness ==
    /\ last.op = "close_trade"
    /\ last.ret = PyFalse
    /\ Len(ledger) > 0
    /\ Addressed(ledger, last.arg.trade_id) = 0

\* C4: the first close of an Active trade sets status to Closed, exit_date to
\* today, exit_price and exit_reason to the arguments, realized_pnl to
\* (exit_price - entry_price) / entry_price * 100 (entry_price a number other
\* than 0) and the holding period to the days from entry_date to exit_date.
C4_FreshClose ==
    [][(/\ last'.op = "close_trade"
        /\ Addressed(ledger, last'.arg.trade_id) # 0
        /\ ledger[Addressed(ledger, last'.arg.trade_id)].status = Active)
       => LET i   == Addressed(ledger, last'.arg.trade_id)
              old == ledger[i]
              new == ledger'[i]
          IN  /\ last'.ret = PyTrue
              /\ Len(ledger') = Len(ledger)
              /\ new.status = Closed
              /\ new.exit_date = IsoDate(Today(clock))
              /\ new.exit_price = last'.arg.exit_price
              /\ new.exit_reason = last'.arg.exit_reason
              /\ (IsNum(old.entry_price) /\ old.entry_price.n # 0
                    => IsPctOf(new.realized_pnl, last'.arg.exit_price, old.entry_price))
              /\ new.holding_period = Num(new.exit_date.n - old.entry_date.n)]_vars

\* A trade opened on one day was closed on the next: holding period 1, and a
\* realized_pnl of 10 or 15 percent.
C4_Witness ==
    /\ last.op = "close_trade"
    /\ last.ret = PyTrue
    /\ LET i == Addressed(ledger, last.arg.trade_id)
       IN  /\ i # 0
           /\ ledger[i].status = Closed
           /\ ledger[i].exit_price = last.arg.exit_price
           /\ ledger[i].exit_date = IsoDate(Today(clock))
           /\ ledger[i].holding_period = Num(1)
           /\ ledger[i].realized_pnl \in {Num(10), Num(15)}

\* symbol, entry_price, stop_loss_price or target_price is missing or None
LacksRequired(a) ==
    \E key \in {"symbol", "entry_price", "stop_loss_price", "target_price"} :
        a[key] \in {Missing, None}

\* C5: add_tracked_signal with symbol, entry_price, stop_loss_price or
\* target_price missing or None returns None and leaves the file as it was.
C5_SignalRejected ==
    [][(last'.op = "add_tracked_signal" /\ LacksRequired(last'.arg))
       => (last'.ret = None /\ ledger' = ledger)]_vars

\* A signal that lacks a required field was rejected on a ledger that holds
\* a trade.
C5_Witness ==
    /\ last.op = "add_tracked_signal"
    /\ LacksRequired(last.arg)
    /\ last.ret = None
    /\ Len(ledger) > 0

\* C6: add_manual_historical_pick with symbol, entry_price, stop_loss_price
\* or target_price None returns None and leaves the file as it was.
C6_ManualRejected ==
    [][(last'.op = "add_manual_historical_pick" /\ LacksRequired(last'.arg))
       => (last'.ret = None /\ ledger' = ledger)]_vars

\* C7: no two rows of the ledger carry the same trade_id.
C7_UniqueTradeIds ==
    \A i, j \in Rows(ledger) : i # j => ledger[i].trade_id # ledger[j].trade_id

\* C8 as stated: after a mark to market in which the price fetch of an Active
\* trade failed, the trade's current_price and unrealized_pnl hold no value.
C8_FailedFetchLeavesMissing ==
    last.op = "update_active_trades" =>
        \A i \in DOMAIN last.arg :
            FetchFailed(last.arg[i]) =>
                /\ IsNull(Field(ledger, i, "current_price"))
                /\ IsNull(Field(ledger, i, "unrealized_pnl"))

\* C8 as amended: a mark to market in which the price fetch of an Active trade
\* fails leaves the trade's current_price and unrealized_pnl as they were
\* before the call.
C8_FailedFetchLeavesUnchanged ==
    [][last'.op = "update_active_trades" =>
          \A i \in DOMAIN last'.arg :
              FetchFailed(last'.arg[i]) =>
                  /\ ledger'[i].current_price = ledger[i].current_price
                  /\ ledger'[i].unrealized_pnl = ledger[i].unrealized_pnl]_vars

\* The fetch of a trade failed in a mark to market, and the trade holds the
\* price and the P&L of an earlier one.
C8_Witness ==
    /\ last.op = "update_active_trades"
    /\ \E i \in DOMAIN last.arg :
           /\ FetchFailed(last.arg[i])
           /\ ledger[i].current_price = Num(108)
           /\ ledger[i].unrealized_pnl = Num(8)

\* The batch of the last call held a trade whose fetch failed, other than i.
OtherFailed(i) == \E j \in DOMAIN last.arg : j # i /\ FetchFailed(last.arg[j])

\* C9 as stated: in a batch in which the fetch of one Active trade fails,
\* every other Active trade whose fetch returns a price has that price and
\* its unrealized_pnl written, and update_active_trades returns True.
C9_BatchSurvivesFailure ==
    last.op = "update_active_trades" =>
        \A i \in DOMAIN last.arg :
            (OtherFailed(i) /\ IsNum(last.arg[i])) =>
                /\ last.ret = PyTrue
                /\ ledger[i].current_price = last.arg[i]
                /\ IsNum(ledger[i].unrealized_pnl)
                /\ (IsNum(ledger[i].entry_price) /\ ledger[i].entry_price.n # 0
                      => IsPctOf(ledger[i].unrealized_pnl, last.arg[i], ledger[i].entry_price))

\* C9 as amended: the unrealized_pnl is written when the trade's entry_price
\* is a number other than 0.
C9_BatchSurvivesFailureNonzeroEntry ==
    last.op = "update_active_trades" =>
        \A i \in DOMAIN last.arg :
            (OtherFailed(i) /\ IsNum(last.arg[i])) =>
                /\ last.ret = PyTrue
                /\ ledger[i].current_price = last.arg[i]
                /\ (IsNum(ledger[i].entry_price) /\ ledger[i].entry_price.n # 0
                      => IsPctOf(ledger[i].unrealized_pnl, last.arg[i], ledger[i].entry_price))

\* In one batch the fetch of a trade raised and another trade, never marked
\* before, got its price and its P&L.
C9_Witness ==
    /\ last.op = "update_active_trades"
    /\ last.ret = PyTrue
    /\ \E i, j \in DOMAIN last.arg :
           /\ i # j
           /\ last.arg[j] = Raises
           /\ IsNull(Field(ledger, j, "current_price"))
           /\ last.arg[i] = Num(108)
           /\ ledger[i].current_price = Num(108)
           /\ ledger[i].unrealized_pnl = Num(8)

\* C10: an open that succeeds appends one row to the rows the file held, with
\* status Active, entry_date today, the trade_type of the operation, and no
\* value in current_price, unrealized_pnl, exit_date, exit_price,
\* realized_pnl and holding_period.
C10_OpenAppendsActiveRow ==
    [][(IsOpen(last'.op) /\ last'.ret # None)
       => /\ Len(ledger') = Len(ledger) + 1
          /\ \A i \in Rows(ledger) : ledger'[i] = ledger[i]
          /\ LET n == Len(ledger')
             IN  /\ ledger'[n].trade_id = last'.ret
                 /\ ledger'[n].status = Active
                 /\ ledger'[n].entry_date = IsoDate(Today(clock))
                 /\ ledger'[n].trade_type =
                        (IF last'.op = "add_tracked_signal"
                         THEN Str("Tracked Signal")
                         ELSE Str("Manual Historical Pick"))
                 /\ \A col \in {"current_price", "unrealized_pnl", "exit_date",
                                "exit_price", "realized_pnl", "holding_period"} :
                        IsNull(Field(ledger', n, col))]_vars

\* A signal was opened on the second day, after a manual pick.
C10_Witness ==
    /\ last.op = "add_tracked_signal"
    /\ last.ret # None
    /\ Len(ledger) = 2
    /\ ledger[1].trade_type = Str("Manual Historical Pick")
    /\ ledger[2].trade_type = Str("Tracked Signal")
    /\ ledger[2].entry_date = IsoDate(1)
    /\ ledger[2].status = Active

\* The three prices of a manual pick are numbers.
PricedPick(a) ==
    IsNum(a.entry_price) /\ IsNum(a.stop_loss_price) /\ IsNum(a.target_price)

\* The number r is (target - entry) / (entry - stop), the prices being whole
\* numbers and entry # stop.
IsRewardToRisk(r, a) ==
    /\ IsNum(r)
    /\ r.n * (a.entry_price.n - a.stop_loss_price.n)
          = r.d * (a.target_price.n - a.entry_price.n)

\* C11 as stated: add_manual_historical_pick with three prices succeeds and
\* stores risk_reward_ratio = (target_price - entry_price) / (entry_price -
\* stop_loss_price), and no value when entry_price equals stop_loss_price.
C11_ManualRewardToRisk ==
    [][(last'.op = "add_manual_historical_pick" /\ PricedPick(last'.arg))
       => /\ last'.ret # None
          /\ Len(ledger') = Len(ledger) + 1
          /\ LET rr == Field(ledger', Len(ledger'), "risk_reward_ratio")
             IN  IF last'.arg.entry_price = last'.arg.stop_loss_price
                 THEN IsNull(rr)
                 ELSE IsRewardToRisk(rr, last'.arg)]_vars

\* C11 as amended: the ratio is stored when the three prices are numbers
\* other than 0 and entry_price is above stop_loss_price; in every other case
\* (entry_price at or below stop_loss_price, a price of 0) no value is stored,
\* and the open succeeds.
C11_ManualRewardToRiskAboveStop ==
    [][(last'.op = "add_manual_historical_pick" /\ PricedPick(last'.arg))
       => /\ last'.ret # None
          /\ Len(ledger') = Len(ledger) + 1
          /\ LET rr == Field(ledger', Len(ledger'), "risk_reward_ratio")
                 a  == last'.arg
             IN  IF /\ a.entry_price.n # 0 /\ a.stop_loss_price.n # 0
                    /\ a.target_price.n # 0
                    /\ a.entry_price.n > a.stop_loss_price.n
                 THEN IsRewardToRisk(rr, a)
                 ELSE IsNull(rr)]_vars

\* The ledger holds a pick with a ratio of 2 and the last open, a pick with
\* its stop at its entry price, added a row with no ratio.
C11_Witness ==
    /\ last.op = "add_manual_historical_pick"
    /\ last.ret # None
    /\ last.arg.entry_price = last.arg.stop_loss_price
    /\ Len(ledger) = 2
    /\ Field(ledger, 1, "risk_reward_ratio") = Num(2)
    /\ IsNull(Field(ledger, 2, "risk_reward_ratio"))

\* C12: a mark to market writes unrealized_pnl = (current_price - entry_price)
\* / entry_price * 100 for an Active trade when its price was fetched and its
\* entry_price is a number other than 0, and in every other case (no price,
\* entry_price 0 or not a number) leaves unrealized_pnl as it was.
C12_PnlExactlyWhenComputable ==
    [][last'.op = "update_active_trades" =>
          \A i \in DOMAIN last'.arg :
              LET price == last'.arg[i]
                  entry == Field(ledger, i, "entry_price")
              IN  IF IsNum(price) /\ IsNum(entry) /\ entry.n # 0
                  THEN IsPctOf(ledger'[i].unrealized_pnl, price, entry)
                  ELSE ledger'[i].unrealized_pnl = ledger[i].unrealized_pnl]_vars

\* One batch fetched 108 for a trade entered at 100, which holds 8 percent,
\* and for a trade with no entry price, which holds the price and no P&L.
C12_Witness ==
    /\ last.op = "update_active_trades"
    /\ \E i, j \in DOMAIN last.arg :
           /\ last.arg[i] = Num(108) /\ last.arg[j] = Num(108)
           /\ ledger[i].entry_price = Num(100)
           /\ ledger[i].unrealized_pnl = Num(8)
           /\ IsNull(Field(ledger, j, "entry_price"))
           /\ ledger[j].current_price = Num(108)
           /\ IsNull(Field(ledger, j, "unrealized_pnl"))

\* ---------------------------------------------------- claims on the report
\* The last call is a monthly report.
Reported == last.op = "get_monthly_performance_report"

Partitions == {"combined", "tracked_signal", "manual_historical_pick"}

\* The trade types whose trades belong to a partition of the report.
TypesOf(partition) ==
    CASE partition = "tracked_signal"         -> {Str("Tracked Signal")}
      [] partition = "manual_historical_pick" -> {Str("Manual Historical Pick")}
      [] OTHER -> {Str("Tracked Signal"), Str("Manual Historical Pick")}

\* The rows of the file that are Closed with an exit_date in the month.
ClosedIn(file, year, month) ==
    {i \in Rows(file) :
        /\ file[i].status = Closed
        /\ \E day \in 0..(DaysPerMonth - 1) :
               file[i].exit_date = IsoDate(DayOf(year, month, day))}

\* Those of a partition whose realized_pnl is a number.
Counted(file, year, month, partition) ==
    {i \in ClosedIn(file, year, month) :
        /\ IsNum(file[i].realized_pnl)
        /\ file[i].trade_type \in TypesOf(partition)}

\* The sum of the realized_pnl of the rows S of the file.
RECURSIVE SumOf(_, _)
SumOf(file, S) ==
    IF S = {} THEN Num(0)
    ELSE LET i == CHOOSE j \in S : TRUE
         IN  RatAdd(file[i].realized_pnl, SumOf(file, S \ {i}))

Winners(file, S) == {i \in S : file[i].realized_pnl.n > 0}
Losers(file, S) == {i \in S : file[i].realized_pnl.n <= 0}

\* The number q is a / b (b # 0).
IsQuotient(q, a, b) == IsNum(q) /\ q.n * b.n * a.d = a.n * b.d * q.d

\* C13: in a monthly report for (year, month), the trades counted in a
\* partition, and the P&L summed in it, are those of the trades with status
\* Closed and an exit_date in that year and month (of the partition's type,
\* with a realized_pnl that is a number): no Active trade and no trade closed
\* in another month or year contributes.
C13_OnlyClosedInMonth ==
    (Reported /\ trades_file = "csv") =>
        \A p \in Partitions :
            LET S == Counted(ledger, last.arg.year, last.arg.month, p)
            IN  /\ last.ret[p].total_trades = Num(Cardinality(S))
                /\ last.ret[p].total_pnl = SumOf(ledger, S)
                /\ last.ret[p].sum_positive_pnl = SumOf(ledger, Winners(ledger, S))
                /\ last.ret[p].sum_negative_pnl = SumOf(ledger, Losers(ledger, S))

\* A report counted one trade of a ledger that also holds an Active trade, a
\* trade closed in the next month and a trade closed in the same month of
\* another year.
C13_Witness ==
    /\ Reported /\ trades_file = "csv"
    /\ last.ret.combined.total_trades = Num(1)
    /\ \E i, j, k \in Rows(ledger) :
           /\ ledger[i].status = Active
           /\ ledger[j].status = Closed
           /\ ledger[j].exit_date = IsoDate(DayOf(last.arg.year, last.arg.month, 0) + DaysPerMonth)
           /\ ledger[k].status = Closed /\ IsNum(ledger[k].realized_pnl)
           /\ k \in ClosedIn(ledger, last.arg.year, last.arg.month)

\* C14: when the file is missing, of size 0, unreadable, without its status
\* or exit_date column, without rows, or without a Closed trade in the month,
\* get_monthly_performance_report returns a report whose three partitions
\* hold every metric at 0, with a note that is not empty.
C14_ZeroedReport ==
    (/\ Reported
     /\ \/ trades_file # "csv"
        \/ ClosedIn(ledger, last.arg.year, last.arg.month) = {})
    => /\ \A p \in Partitions :
              /\ DOMAIN last.ret[p] = DOMAIN ZeroMetrics
              /\ \A metric \in DOMAIN last.ret[p] : last.ret[p][metric] = Num(0)
       /\ last.ret.contributing_trades = <<>>
       /\ last.ret.notes.s # ""

\* A report was made from a table that lacks a column and holds a trade
\* closed in the month reported on.
C14_Witness ==
    /\ Reported
    /\ trades_file \in {"no_status", "no_exit_date"}
    /\ ClosedIn(ledger, last.arg.year, last.arg.month) # {}
    /\ last.ret.combined.total_trades = Num(0)

\* C15: in every partition each counted trade is winning when its
\* realized_pnl is above 0 and losing when it is 0 or below, winning_trades +
\* losing_trades = total_trades, and win_rate = winning_trades /
\* total_trades * 100.
C15_WinOrLose ==
    (Reported /\ trades_file = "csv") =>
        \A p \in Partitions :
            LET S == Counted(ledger, last.arg.year, last.arg.month, p)
                m == last.ret[p]
            IN  /\ m.winning_trades = Num(Cardinality(Winners(ledger, S)))
                /\ m.losing_trades = Num(Cardinality(Losers(ledger, S)))
                /\ m.winning_trades.n + m.losing_trades.n = m.total_trades.n
                /\ m.total_trades.n > 0 =>
                       IsQuotient(m.win_rate, Num(m.winning_trades.n * 100), m.total_trades)

\* A partition holds a gain and a trade that broke even: one winning trade,
\* one losing trade, a win rate of 50.
C15_Witness ==
    /\ Reported /\ trades_file = "csv"
    /\ \E p \in Partitions :
           /\ last.ret[p].total_trades = Num(2)
           /\ last.ret[p].winning_trades = Num(1)
           /\ last.ret[p].losing_trades = Num(1)
           /\ last.ret[p].sum_negative_pnl = Num(0)
           /\ last.ret[p].win_rate = Num(50)

\* C16: in every partition profit_factor = sum of the positive realized_pnl /
\* |sum of the others|, and 0 when that sum is 0; avg_win_pnl and
\* avg_loss_pnl are the sums over the numbers of winning and losing trades,
\* and 0 when there is none.
C16_ProfitFactor ==
    (Reported /\ trades_file = "csv") =>
        \A p \in Partitions :
            LET S   == Counted(ledger, last.arg.year, last.arg.month, p)
                W   == Winners(ledger, S)
                L   == Losers(ledger, S)
                pos == SumOf(ledger, W)
                neg == SumOf(ledger, L)
                m   == last.ret[p]
            IN  /\ IF neg.n = 0 THEN m.profit_factor = Num(0)
                   ELSE IsQuotient(m.profit_factor, pos, RatAbs(neg))
                /\ IF W = {} THEN m.avg_win_pnl = Num(0)
                   ELSE IsQuotient(m.avg_win_pnl, pos, Num(Cardinality(W)))
                /\ IF L = {} THEN m.avg_loss_pnl = Num(0)
                   ELSE IsQuotient(m.avg_loss_pnl, neg, Num(Cardinality(L)))

\* A partition holds gains and no loss, and its profit factor is 0; another
\* holds a gain of 100 and a loss of 50, and its profit factor is 2.
C16_Witness ==
    /\ Reported /\ trades_file = "csv"
    /\ \E p, q \in Partitions :
           /\ last.ret[p].winning_trades.n > 0
           /\ last.ret[p].losing_trades = Num(0)
           /\ last.ret[p].avg_loss_pnl = Num(0)
           /\ last.ret[p].profit_factor = Num(0)
           /\ last.ret[q].sum_positive_pnl = Num(100)
           /\ last.ret[q].sum_negative_pnl = Num(-50)
           /\ last.ret[q].profit_factor = Num(2)

\* The file without its row i.
WithoutRow(file, i) ==
    [j \in 1..(Len(file) - 1) |-> IF j < i THEN file[j] ELSE file[j + 1]]

\* C17: a Closed trade of the month whose realized_pnl is not a number
\* changes no metric: the three partitions of the report are those of the
\* report made from the file without that row.
C17_NonNumericPnlExcluded ==
    (Reported /\ trades_file = "csv") =>
        \A i \in ClosedIn(ledger, last.arg.year, last.arg.month) :
            ~IsNum(ledger[i].realized_pnl) =>
                LET other == MonthlyPerformanceReport("csv", WithoutRow(ledger, i),
                                                      last.arg.year, last.arg.month)
                IN  \A p \in Partitions : last.ret[p] = other[p]

\* The ledger holds two tracked signals closed in the month, one with a
\* realized_pnl that is no number, and a manual pick; the report counts one
\* tracked signal and two trades in all.
C17_Witness ==
    /\ Reported /\ trades_file = "csv"
    /\ last.ret.tracked_signal.total_trades = Num(1)
    /\ last.ret.manual_historical_pick.total_trades = Num(1)
    /\ last.ret.combined.total_trades = Num(2)
    /\ \E i \in ClosedIn(ledger, last.arg.year, last.arg.month) :
           /\ ledger[i].trade_type = Str("Tracked Signal")
           /\ ~IsNum(ledger[i].realized_pnl)

\* C18: contributing_trades lists the trades counted in the combined
\* metrics and no other: a trade left out of them for a realized_pnl that is
\* no number is not listed, and the list is as long as combined.total_trades.
C18_ContributingAreCounted ==
    (Reported /\ trades_file = "csv") =>
        /\ Len(last.ret.contributing_trades) = last.ret.combined.total_trades.n
        /\ {last.ret.contributing_trades[i].trade_id :
                i \in DOMAIN last.ret.contributing_trades}
             = {ledger[i].trade_id :
                   i \in Counted(ledger, last.arg.year, last.arg.month, "combined")}

\* ------------------------------------------------- claims on the validator
\* The last call is a report made from a record of signals.
Validated == last.op = "generate_report_from_json"

\* The places of a record of signals: the overall one and each segment's.
Places == {"overall"} \cup Segments

SignalAt(signal_data, place) ==
    IF place = "overall" THEN signal_data.overall_top_signal
    ELSE signal_data.segmented_signals[place]

\* The message an invalidated signal of the place carries.
StaleMessageAt(place) ==
    IF place = "overall" THEN OverallStaleMessage ELSE SegmentStaleMessage(place)

\* The signal is found, and dated before the day given.
FoundBefore(sig, day) ==
    sig # None /\ sig.signal_found = PyTrue /\ sig.date.k = "date" /\ sig.date.n < day

\* The signal is found and dated, and its close is at or below its stop.
FoundAtOrBelowStop(sig) ==
    /\ sig # None /\ sig.signal_found = PyTrue /\ sig.date.k = "date"
    /\ IsNum(sig.latest_close) /\ IsNum(sig.stop_loss_price)
    /\ sig.latest_close.n * sig.stop_loss_price.d
          <= sig.stop_loss_price.n * sig.latest_close.d

\* C19: the validator invalidates (signal_found False, the message replaced
\* by the stale message) every found signal dated before the current date,
\* and every found signal whose latest_close is at or below its
\* stop_loss_price; each of the two is enough.
C19_StaleInvalidated ==
    Validated =>
        \A place \in Places :
            LET before == SignalAt(last.arg, place)
                after  == SignalAt(last.ret.signal_data, place)
            IN  (FoundBefore(before, Today(clock)) \/ FoundAtOrBelowStop(before))
                => /\ after.signal_found = PyFalse
                   /\ after.message = StaleMessageAt(place)

\* One call invalidated the overall signal, dated the day before with its
\* close above its stop, and a segment's signal, dated the same day with its
\* close below its stop, and left the signal of the other segment found.
C19_Witness ==
    /\ Validated
    /\ LET o == last.arg.overall_top_signal
       IN  /\ FoundBefore(o, Today(clock)) /\ ~FoundAtOrBelowStop(o)
           /\ IsNum(o.latest_close) /\ IsNum(o.stop_loss_price)
    /\ last.ret.signal_data.overall_top_signal.signal_found = PyFalse
    /\ \E a, b \in Segments :
           /\ FoundAtOrBelowStop(last.arg.segmented_signals[a])
           /\ last.arg.segmented_signals[a].date = IsoDate(Today(clock))
           /\ last.ret.signal_data.segmented_signals[a].signal_found = PyFalse
           /\ last.ret.signal_data.segmented_signals[a].message = SegmentStaleMessage(a)
           /\ last.ret.signal_data.segmented_signals[b] # None
           /\ last.ret.signal_data.segmented_signals[b].signal_found = PyTrue

\* Two signals carry the same signal_found and the same message.
SameVerdict(a, b) ==
    IF a = None \/ b = None THEN a = b
    ELSE a.signal_found = b.signal_found /\ a.message = b.message

\* C20: for a fixed current date, the validator applied to what it returned
\* gives, for the overall signal and for every segment, the signal_found and
\* the message it gave the first time.
C20_ValidationIdempotent ==
    Validated =>
        LET once  == last.ret.signal_data
            twice == ValidateSignals(once, Today(clock))
        IN  \A place \in Places : SameVerdict(SignalAt(twice, place), SignalAt(once, place))

\* The call changed the overall signal and a segment's signal, and kept a
\* signal that was not found, with its own message, as it was.
C20_Witness ==
    /\ Validated
    /\ last.arg.overall_top_signal # None
    /\ last.arg.overall_top_signal.signal_found = PyTrue
    /\ last.ret.signal_data.overall_top_signal.signal_found = PyFalse
    /\ \E a, b \in Segments :
           /\ last.arg.segmented_signals[a] # None
           /\ last.arg.segmented_signals[a].signal_found = PyTrue
           /\ last.ret.signal_data.segmented_signals[a].signal_found = PyFalse
           /\ last.arg.segmented_signals[b] # None
           /\ last.arg.segmented_signals[b].signal_found = PyFalse
           /\ last.ret.signal_data.segmented_signals[b] = last.arg.segmented_signals[b]

\* C21: the validator changes nothing of a signal but signal_found, which it
\* sets to False, and message, which it overwrites, and only on a signal that
\* was found: a signal not found (or no signal) comes back as it was, never
\* found again, and an invalidated signal keeps its symbol, its date, its
\* prices and every other field.
C21_OnlyFoundAndMessageChange ==
    Validated =>
        \A place \in Places :
            LET before == SignalAt(last.arg, place)
                after  == SignalAt(last.ret.signal_data, place)
            IN  IF before = None THEN after = None
                ELSE /\ after # None
                     /\ DOMAIN after = DOMAIN before
                     /\ \A key \in DOMAIN before \ {"signal_found", "message"} :
                            after[key] = before[key]
                     /\ ~IsTruthy(Get(before, "signal_found")) => after = before
                     /\ after # before =>
                            /\ after.signal_found = PyFalse
                            /\ after.message = StaleMessageAt(place)

\* The call invalidated an overall signal of the day with its close below its
\* stop, which keeps its date and its two prices, and gave back a segment's
\* signal that was not found with the message it had.
C21_Witness ==
    /\ Validated
    /\ last.arg.overall_top_signal # None
    /\ last.arg.overall_top_signal.signal_found = PyTrue
    /\ LET after == last.ret.signal_data.overall_top_signal
       IN  /\ after.signal_found = PyFalse
           /\ after.message = OverallStaleMessage
           /\ after.symbol = Str("XYZ")
           /\ after.date = IsoDate(Today(clock))
           /\ after.latest_close = Num(85)
           /\ after.stop_loss_price = Num(90)
    /\ \E b \in Segments :
           /\ last.arg.segmented_signals[b] # None
           /\ last.arg.segmented_signals[b].signal_found = PyFalse
           /\ last.ret.signal_data.segmented_signals[b].signal_found = PyFalse
           /\ last.ret.signal_data.segmented_signals[b].message = Str("No M1 signal")

\* ----------------------------------------------------- claims on the ranking
\* The last call is a scan of the market.
Ranked == last.op = "find_current_setups"

\* The segment the scan gives the symbol.
SegmentOf(symbol) ==
    market.symbols[CHOOSE i \in DOMAIN market.symbols :
                       market.symbols[i].symbol = symbol].segment

\* The symbol has a setup that passed the filter.
Passes(symbol) == market.outcome[symbol] # NoSetup /\ market.outcome[symbol].passes

\* The passing candidates of a place: of the segment, or of every segment for
\* the overall signal.
PassingAt(place) ==
    {symbol \in Symbols :
        Passes(symbol) /\ (place = "overall" \/ SegmentOf(symbol) = place)}

\* The score and the strength a candidate is ranked by.
RankOf(symbol) ==
    [strategy_score            |-> market.outcome[symbol].score,
     historical_strength_score |-> HistStrength(hist_perf, symbol)]

\* a has the higher score, or the same score and the higher strength.
RanksAbove(a, b) ==
    \/ a.strategy_score.n * b.strategy_score.d > b.strategy_score.n * a.strategy_score.d
    \/ /\ a.strategy_score = b.strategy_score
       /\ IsNum(a.historical_strength_score) /\ IsNum(b.historical_strength_score)
       /\ a.historical_strength_score.n * b.historical_strength_score.d
             > b.historical_strength_score.n * a.historical_strength_score.d

\* C22: the signal of a market segment is found when the segment has a
\* candidate that passed the filter, and it is then one of them, with its
\* score and its strength, such that no other passing candidate of the
\* segment has a higher score, or the same score and a higher strength; a
\* candidate that failed the filter is never reported.
C22_SegmentWinnerIsMaximal ==
    Ranked =>
        \A segment \in Segments :
            LET sig == last.ret.segmented_signals[segment]
            IN  /\ sig.signal_found = PyTrue <=> PassingAt(segment) # {}
                /\ sig.signal_found = PyTrue =>
                       \E w \in PassingAt(segment) :
                           /\ sig.symbol = Str(w)
                           /\ sig.market_segment = Str(segment)
                           /\ sig.strategy_score = RankOf(w).strategy_score
                           /\ sig.historical_strength_score
                                 = RankOf(w).historical_strength_score
                           /\ \A c \in PassingAt(segment) : ~RanksAbove(RankOf(c), RankOf(w))

\* Three candidates of one segment passed, the first seen with the lowest
\* score and the two others with the same score; the signal is the last seen,
\* whose strength is the higher.
C22_Witness ==
    /\ Ranked
    /\ \E segment \in Segments :
           LET a == market.symbols[1].symbol
               b == market.symbols[2].symbol
               c == market.symbols[3].symbol
           IN  /\ PassingAt(segment) = {a, b, c}
               /\ RankOf(a).strategy_score = Rat(90, 100)
               /\ RankOf(b).strategy_score = Rat(95, 100)
               /\ RankOf(c).strategy_score = Rat(95, 100)
               /\ RankOf(b).historical_strength_score = Num(80)
               /\ RankOf(c).historical_strength_score = Num(90)
               /\ last.ret.segmented_signals[segment].symbol = Str(c)

Reordered(scan) ==
    {[scan EXCEPT !.symbols = [i \in DOMAIN scan.symbols |-> scan.symbols[p[i]]]] :
        p \in Permutations(DOMAIN scan.symbols)}

\* C24 as stated: the signals of a scan, for every segment and overall, are
\* the ones the scan gives with its symbols processed in any other order.
C24_OrderIndependent ==
    Ranked =>
        \A other \in Reordered(market) :
            FindCurrentSetupsResult(other, hist_perf, Segments, Today(clock)) = last.ret

\* One candidate of the place ranks above every other one.
HasTop(place) ==
    \E w \in PassingAt(place) :
        \A c \in PassingAt(place) \ {w} : RanksAbove(RankOf(w), RankOf(c))

\* C24 as amended: the signal of a place (a segment, or overall) is the one
\* the scan gives in any other order of processing whenever the place has no
\* passing candidate or has one that ranks above every other; which of the
\* best candidates is reported when they tie on score and strength may depend
\* on the order.
C24_OrderIndependentWithTop ==
    Ranked =>
        \A place \in Places :
            (PassingAt(place) = {} \/ HasTop(place)) =>
                \A other \in Reordered(market) :
                    SignalAt(FindCurrentSetupsResult(other, hist_perf, Segments,
                                                     Today(clock)), place)
                        = SignalAt(last.ret, place)

\* Three candidates passed, two of them with the same score; the one that
\* ranks above the others was seen last and is the overall signal.
C24_Witness ==
    /\ Ranked
    /\ Cardinality(PassingAt("overall")) = 3
    /\ HasTop("overall")
    /\ \E a, b \in PassingAt("overall") :
           a # b /\ RankOf(a).strategy_score = RankOf(b).strategy_score
    /\ last.ret.overall_top_signal.symbol = Str(market.symbols[3].symbol)
    /\ \E segment \in Segments : Cardinality(PassingAt(segment)) = 2

\* C25: a scan returns one signal for each configured segment and one overall
\* signal; a place with no passing candidate has a signal with signal_found
\* False, a message, and the current date.
C25_OneSignalPerPlace ==
    Ranked =>
        /\ DOMAIN last.ret = {"overall_top_signal", "segmented_signals"}
        /\ DOMAIN last.ret.segmented_signals = Segments
        /\ \A place \in Places :
               LET sig == SignalAt(last.ret, place)
               IN  /\ sig # None
                   /\ sig.signal_found \in {PyTrue, PyFalse}
                   /\ PassingAt(place) = {} =>
                          /\ sig.signal_found = PyFalse
                          /\ IsTruthy(sig.message)
                          /\ sig.date = IsoDate(Today(clock))

\* On the day after the last bar, a segment whose only symbol failed the
\* filter has a signal not found dated that day, next to a segment whose
\* signal is found and dated the day of the bar.
C25_Witness ==
    /\ Ranked
    /\ \E a, b \in Segments :
           /\ last.ret.segmented_signals[a].signal_found = PyTrue
           /\ last.ret.segmented_signals[a].date = market.signal_date
           /\ market.signal_date # IsoDate(Today(clock))
           /\ last.ret.segmented_signals[b].signal_found = PyFalse
           /\ last.ret.segmented_signals[b].date = IsoDate(Today(clock))
           /\ \E symbol \in Symbols :
                  /\ SegmentOf(symbol) = b
                  /\ market.outcome[symbol] # NoSetup
                  /\ ~market.outcome[symbol].passes

\* ------------------------------------------------- claims on the top picks
\* The last call is get_top_historical_picks.
Picked == last.op = "get_top_historical_picks"

\* The rows of the table whose score is a number.
Scored == {i \in 1..Len(hist_perf.rows) : IsNum(hist_perf.rows[i].hist_strength_score)}

\* The rows the records returned come from.
Returned ==
    {i \in 1..Len(hist_perf.rows) :
        \E k \in 1..Len(last.ret) : last.ret[k].symbol = hist_perf.rows[i].symbol}

AtLeast(x, y) == x.n * y.d >= y.n * x.d

\* C26: get_top_historical_picks(n) returns at most n records (n of them
\* when the table has as many rows with a number for its score, else one for
\* each such row), each the record of a row of its own whose score is a
\* number, in non-increasing order of score, and no row left out has a number
\* above the score of a record returned; a missing file, a file that cannot
\* be read, a table without its score column or without rows gives the empty
\* list.
C26_TopPicks ==
    Picked =>
        IF hist_perf.kind \in {"missing", "unreadable", "no_score_column"}
           \/ Len(hist_perf.rows) = 0
        THEN last.ret = <<>>
        ELSE /\ Len(last.ret) <= last.arg.n_top
             /\ Len(last.ret) = IF last.arg.n_top < Cardinality(Scored)
                                THEN last.arg.n_top ELSE Cardinality(Scored)
             /\ Returned \subseteq Scored
             /\ Cardinality(Returned) = Len(last.ret)
             /\ \A k \in 1..Len(last.ret) :
                    /\ IsNum(last.ret[k].hist_strength_score)
                    /\ \E i \in Scored :
                           /\ last.ret[k].symbol = hist_perf.rows[i].symbol
                           /\ last.ret[k].hist_strength_score
                                 = hist_perf.rows[i].hist_strength_score
                    /\ \A j \in 1..Len(last.ret) :
                           k < j => AtLeast(last.ret[k].hist_strength_score,
                                            last.ret[j].hist_strength_score)
                    /\ \A i \in Scored \ Returned :
                           AtLeast(last.ret[k].hist_strength_score,
                                   hist_perf.rows[i].hist_strength_score)

\* Of a table of three rows, the first with a text for its score, the second
\* with 90 and the third with 110, the one pick asked for is the third.
C26_Witness ==
    /\ Picked
    /\ last.arg.n_top = 1
    /\ hist_perf.kind = "csv"
    /\ Len(hist_perf.rows) = 3
    /\ hist_perf.rows[1].hist_strength_score = Str("not_a_number")
    /\ hist_perf.rows[2].hist_strength_score = Num(90)
    /\ hist_perf.rows[3].hist_strength_score = Num(110)
    /\ Len(last.ret) = 1
    /\ last.ret[1].symbol = SymbolNo(3)
    /\ last.ret[1].hist_strength_score = Num(110)

\* ---------------------------------------------------------------------------
\* The trade_ids of the rows of a file.
IdsOf(file) == {file[i].trade_id : i \in Rows(file)}

\* C27: two writers of the ledger run without a lock, each reading the whole
\* table, changing it and writing the whole table back.  The write of a writer
\* replaces the file by the table that writer read with its own change, so
\* every row another writer committed between that read and that write is
\* missing from the file afterwards: an update is lost.  C27_Witness is such a
\* state: add_tracked_signal has returned the trade_id of the row it wrote,
\* update_active_trades has then written its table, and the file holds no row
\* with that trade_id.
C27_LostUpdate ==
    [][\A w \in Writers :
          (writers[w].pc = "loaded" /\ writers'[w].pc = "idle" /\ writers[w].writes)
          => \A id \in IdsOf(ledger) \ (IdsOf(writers[w].read) \cup {writers[w].ret}) :
                 id \notin IdsOf(ledger')]_vars

C27_Witness ==
    LET adder == writers["add_tracked_signal"]
    IN  /\ last.op = "update_active_trades"
        /\ last.ret = PyTrue
        /\ writers["update_active_trades"].writes
        /\ adder.pc = "idle"
        /\ adder.writes
        /\ adder.ret \notin IdsOf(ledger)
        /\ adder.ret \notin IdsOf(writers["update_active_trades"].read)

\* C28: the set of trade_ids in the ledger never shrinks: whatever the
\* sequence of loads, opens, mark-to-market updates and closes, loads that
\* find missing columns or hit a read error included, every trade_id the file
\* held before a call is held by the file after it.
C28_TradeIdsNeverShrink ==
    [][IdsOf(ledger) \subseteq IdsOf(ledger')]_vars

\* ---------------------------------------------------------------------------
\* The columns update_active_trades may write.
MarkedColumns == {"current_price", "unrealized_pnl", "holding_period"}

\* C29: update_active_trades changes only current_price, unrealized_pnl and
\* holding_period, and only of rows whose status is Active: every Closed row
\* is left as it was, no other column of any row changes (trade_id, symbol,
\* the entry, stop and target prices, status and the exit fields among them),
\* and no row is added or removed.
C29_UpdateFrame ==
    [][last'.op = "update_active_trades"
       => /\ Len(ledger') = Len(ledger)
          /\ \A i \in Rows(ledger) :
                /\ \A col \in CSV_HEADER \ MarkedColumns :
                       ledger'[i][col] = ledger[i][col]
                /\ Field(ledger, i, "status") # Active => ledger'[i] = ledger[i]]_vars

\* A marking to market has written the price of an Active trade next to a
\* Closed one.
C29_Witness ==
    /\ last.op = "update_active_trades"
    /\ last.ret = PyTrue
    /\ \E i, j \in Rows(ledger) :
          /\ Field(ledger, i, "status") = Closed
          /\ Field(ledger, j, "status") = Active
          /\ Field(ledger, j, "current_price") = Num(108)
          /\ last.arg[j] = Num(108)

\* ---------------------------------------------------------------------------
\* C30: in every state of the ledger reached by opens, mark-to-market updates
\* and closes, a trade is Closed if and only if its exit_date and its
\* exit_price are set, and an Active trade has no exit_date, no exit_price and
\* no realized_pnl.
C30_ClosedIffExited ==
    \A i \in Rows(ledger) :
        /\ Field(ledger, i, "status") = Closed
           <=> (notna(Field(ledger, i, "exit_date")) /\ notna(Field(ledger, i, "exit_price")))
        /\ Field(ledger, i, "status") = Active
           => /\ IsNull(Field(ledger, i, "exit_date"))
              /\ IsNull(Field(ledger, i, "exit_price"))
              /\ IsNull(Field(ledger, i, "realized_pnl"))

\* A trade that was opened and marked to market has been closed: its row is
\* Closed and holds its exit.
C30_Witness ==
    /\ last.op = "close_trade"
    /\ last.ret = PyTrue
    /\ \E i \in Rows(ledger) :
          /\ Field(ledger, i, "status") = Closed
          /\ Field(ledger, i, "current_price") = Num(108)
          /\ Field(ledger, i, "exit_price") = last.arg.exit_price
          /\ notna(Field(ledger, i, "exit_date"))

====
